---------------------------- MODULE Spec2Model ----------------------------
(***************************************************************************)
(* Letter Playground (src/Letter_Playground.js): the glyph model with its  *)
(* transform parameters and undo/redo history, the editor's press / drag / *)
(* release handling, and the UI handlers that drive them.                  *)
(*                                                                         *)
(* Numbers.  A JavaScript number is an IEEE 754 double and is modelled as  *)
(* one: sign, exponent and 53-bit significand, with +, -, *, / and the     *)
(* square root rounded to nearest, ties to even, so that every coordinate  *)
(* the model computes is the double the program computes.  Math.hypot and  *)
(* Math.tan follow V8 (the scaled sum of squares; fdlibm's kernel).  The   *)
(* pointer, the canvas and the editor area are whole pixels and are kept   *)
(* as integers until they enter a computation.  The values a coordinate    *)
(* slot can hold besides a number (absent property, NaN, null) are three   *)
(* more values of the same shape.                                          *)
(*                                                                         *)
(* Indices.  Point references keep the code's 0-based command index; a     *)
(* command list is a TLA+ sequence, so command i is cmds[i + 1].           *)
(***************************************************************************)
EXTENDS Integers, Sequences, FiniteSets, TLC

VARIABLES
    font,           \* global `font`: 0 is null, otherwise the id of the parsed font
    opentypeOK,     \* whether the global `opentype` is defined: opentype.min.js has run
    constructed,    \* glyphModel, editor and preview are no longer null
    initialized,    \* global `initialized`
    canvas,         \* p5 width and height: the size of the canvas
    originalPath,   \* glyphModel.originalPath.commands
    path,           \* glyphModel.path.commands
    char,           \* glyphModel.char
    params,         \* glyphModel.params
    undoStack,      \* glyphModel.undoStack
    redoStack,      \* glyphModel.redoStack
    cam,            \* editor.cam
    dragMode,       \* editor.dragMode
    dragOff,        \* editor.dragOff
    selected,       \* editor.selected
    view,           \* editor.view (grid, lock)
    lastEditorArea, \* editor._lastEditorArea
    checks,         \* ui.grid.checked(), ui.lock.checked()
    charInput,      \* ui.charInput.value()
    loading,        \* the FileReaders whose onload has not run, oldest first:
                    \* for each the font its file parses to (0: it does not parse)
    mouseIsPressed, \* p5 mouseIsPressed: a button is down
    lastOp,         \* history variable: the handler that ran last, and the length of the
                    \* redo stack its saveState() emptied
    dragged,        \* history variable: mouseDragged events since the last press
    everReset,      \* history variable: reset() has run to its end at least once
    phase,          \* history variable: what happened since the last reset()
    commits,        \* history variable: saveState calls since the last reset()
    snaps           \* history variable: the snapshot taken by reset() and by each of them

vars == <<font, opentypeOK, constructed, initialized, canvas, originalPath, path, char,
          params, undoStack, redoStack, cam, dragMode, dragOff, selected, view,
          lastEditorArea, checks, charInput, loading, mouseIsPressed, lastOp, dragged,
          everReset, phase, commits, snaps>>

modelVars == <<originalPath, path, char, params, undoStack, redoStack>>
editorVars == <<cam, dragMode, dragOff, selected, view, lastEditorArea>>
historyVars == <<everReset, phase, commits, snaps>>

-----------------------------------------------------------------------------
(* JavaScript numbers: IEEE 754 binary64 *)

\* A finite non-zero number is <<s, e, h, l>>: sign s (0 or 1), and the value
\* (h * Limb + l) * 2^e with the 53-bit significand h * Limb + l in
\* 2^52 .. 2^53 - 1 held in two 26-bit limbs.  <<s, 0, 0, 0>> is the zero of
\* sign s and <<s, 1, 0, 0>> the infinity of sign s.
Limb == 67108864
\* the significand in four 13-bit digits, for the product
Digit == 8192

zero == <<0, 0, 0, 0>>
Infinity(s) == <<s, 1, 0, 0>>
\* NaN: the result of arithmetic on undefined
NaN == <<2, 0, 0, 0>>
\* `undefined`: the property is absent from the command object
Undefined == <<3, 0, 0, 0>>
\* null: what JSON.stringify writes for NaN, read back by JSON.parse
Null == <<4, 0, 0, 0>>

\* a slot that holds a number other than NaN
IsNum(v) == v[1] < 2
IsZero(x) == x[3] = 0 /\ x[2] = 0
IsInf(x) == x[3] = 0 /\ x[2] = 1

\* ToNumber: undefined -> NaN, null -> 0
ToNumber(v) == IF v = Undefined THEN NaN ELSE IF v = Null THEN zero ELSE v

\* -x
neg(x) == IF x[1] < 2 THEN <<1 - x[1], x[2], x[3], x[4]>> ELSE x
\* Math.abs(x)
abs(x) == IF x[1] < 2 THEN <<0, x[2], x[3], x[4]>> ELSE x

\* the number of bits of v > 0, looking for the top bit in steps of k, k / 2, ...
RECURSIVE bits(_, _)
bits(v, k) ==
    IF k = 0 THEN (IF v > 0 THEN 1 ELSE 0)
    ELSE IF v >= 2^k THEN k + bits(v \div 2^k, k \div 2)
    ELSE bits(v, k \div 2)

\* the significand mh, ml one step up where the rounding says so
bump(s, e, mh, ml, inc) ==
    IF ~inc THEN <<s, e, mh, ml>>
    ELSE IF ml + 1 < Limb THEN <<s, e, mh, ml + 1>>
    ELSE IF mh + 1 < 2 * Limb THEN <<s, e, mh + 1, 0>>
    ELSE <<s, e + 1, Limb, 0>>

\* round to nearest, ties to even: u is what was cut off, in units of
\* 2^-(k+2) of the last place
nearest(s, e, k, mh, ml, u) ==
    bump(s, e, mh, ml, u > 2^(k + 1) \/ (u = 2^(k + 1) /\ ml % 2 = 1))

\* a significand H, L of 53 + k bits cut to 53
shiftDown(s, e, k, H, L, t) ==
    nearest(s, e + k, k, H \div 2^k, (H % 2^k) * 2^(26 - k) + L \div 2^k, 4 * (L % 2^k) + t)

\* a significand H, L of 53 - k bits lengthened to 53
shiftUp(s, e, k, H, L) ==
    IF k >= 26 THEN <<s, e - k, (H * Limb + L) * 2^(k - 26), 0>>
    ELSE <<s, e - k, H * 2^k + L \div 2^(26 - k), (L % 2^(26 - k)) * 2^k>>

\* the double nearest to (H * Limb + L + f) * 2^e, for H < 2^30 and a
\* fraction f given by t: 0 for f = 0, 1 for 0 < f < 1/2, 2 for f = 1/2, 3 for
\* f > 1/2
pack(s, e, H, L, t) ==
    IF H = 0 /\ L = 0 THEN <<s, 0, 0, 0>>
    ELSE IF H >= Limb THEN shiftDown(s, e, bits(H, 16) - 27, H, L, t)
    ELSE shiftUp(s, e, IF H > 0 THEN 27 - bits(H, 16) ELSE 53 - bits(L, 16), H, L)

\* the number of an integer literal or a pixel count, |n| < 2^31
fromInt(n) ==
    IF n < 0 THEN pack(1, 0, (-n) \div Limb, (-n) % Limb, 0)
    ELSE pack(0, 0, n \div Limb, n % Limb, 0)

\* the carries of a column sum c[1], c[2], ... taken through: 13-bit digits
RECURSIVE digits(_, _, _)
digits(c, i, k) ==
    IF i > Len(c) THEN <<k>>
    ELSE <<(c[i] + k) % Digit>> \o digits(c, i + 1, (c[i] + k) \div Digit)

\* what the low four digits of a product leave behind, as pack's t
half(d) ==
    IF d[4] = 4096 /\ d[3] = 0 /\ d[2] = 0 /\ d[1] = 0 THEN 2
    ELSE IF d[4] >= 4096 THEN 3
    ELSE IF d[4] > 0 \/ d[3] > 0 \/ d[2] > 0 \/ d[1] > 0 THEN 1
    ELSE 0

mulPack(s, e, d) == pack(s, e, d[7] + d[8] * Digit, d[5] + d[6] * Digit, half(d))

\* the product of two significands given in 13-bit digits, schoolbook columns
mulLimbs(s, e, a, b) ==
    mulPack(s, e, digits(<<a[1] * b[1],
                           a[1] * b[2] + a[2] * b[1],
                           a[1] * b[3] + a[2] * b[2] + a[3] * b[1],
                           a[1] * b[4] + a[2] * b[3] + a[3] * b[2] + a[4] * b[1],
                           a[2] * b[4] + a[3] * b[3] + a[4] * b[2],
                           a[3] * b[4] + a[4] * b[3],
                           a[4] * b[4]>>, 1, 0))

limbs(x) == <<x[4] % Digit, x[4] \div Digit, x[3] % Digit, x[3] \div Digit>>

mulNum(x, y) ==
    IF x = NaN \/ y = NaN THEN NaN
    ELSE IF x[3] = 0 \/ y[3] = 0
    THEN (IF (IsInf(x) /\ IsZero(y)) \/ (IsZero(x) /\ IsInf(y)) THEN NaN
          ELSE IF IsInf(x) \/ IsInf(y) THEN Infinity((x[1] + y[1]) % 2)
          ELSE <<(x[1] + y[1]) % 2, 0, 0, 0>>)
    ELSE mulLimbs((x[1] + y[1]) % 2, x[2] + y[2] + 52, limbs(x), limbs(y))

\* a * b
mul(a, b) == mulNum(ToNumber(a), ToNumber(b))

\* H, L shifted right by d bits; the third component tells whether a set bit
\* was shifted out
RECURSIVE shr(_, _, _, _)
shr(H, L, d, lost) ==
    IF d >= 60 THEN <<0, 0, lost \/ H # 0 \/ L # 0>>
    ELSE IF d >= 26 THEN shr(H \div Limb, H % Limb, d - 26, lost \/ L # 0)
    ELSE <<H \div 2^d, (H % 2^d) * 2^(26 - d) + L \div 2^d, lost \/ L % 2^d # 0>>

\* the bits shifted out kept as one sticky bit
jam(t) == <<t[1], IF t[3] /\ t[2] % 2 = 0 THEN t[2] + 1 ELSE t[2]>>

\* |x| >= |y| for finite non-zero x, y
bigger(x, y) ==
    x[2] > y[2] \/ (x[2] = y[2] /\ (x[3] > y[3] \/ (x[3] = y[3] /\ x[4] >= y[4])))

addAligned(s, e, XH, XL, Y, same) ==
    IF ~same /\ XH = Y[1] /\ XL = Y[2] THEN zero
    ELSE pack(s, e,
              IF same THEN XH + Y[1] + (XL + Y[2]) \div Limb
              ELSE IF XL >= Y[2] THEN XH - Y[1] ELSE XH - Y[1] - 1,
              IF same THEN (XL + Y[2]) % Limb
              ELSE IF XL >= Y[2] THEN XL - Y[2] ELSE XL - Y[2] + Limb,
              0)

\* x + y for |x| >= |y|: both significands get three guard bits, y is
\* shifted to x's exponent; x + (-x) is +0
addOrd(x, y) ==
    addAligned(x[1], x[2] - 3, x[3] * 8 + (x[4] * 8) \div Limb, (x[4] * 8) % Limb,
               jam(shr(y[3] * 8 + (y[4] * 8) \div Limb, (y[4] * 8) % Limb, x[2] - y[2], FALSE)),
               x[1] = y[1])

addNum(x, y) ==
    IF x = NaN \/ y = NaN THEN NaN
    ELSE IF x[3] = 0 \/ y[3] = 0
    THEN (IF IsInf(x) THEN (IF IsInf(y) /\ x[1] # y[1] THEN NaN ELSE x)
          ELSE IF IsInf(y) THEN y
          ELSE IF IsZero(x)
          THEN (IF IsZero(y) THEN <<IF x[1] = 1 /\ y[1] = 1 THEN 1 ELSE 0, 0, 0, 0>> ELSE y)
          ELSE x)
    ELSE addOrd(IF bigger(x, y) THEN x ELSE y, IF bigger(x, y) THEN y ELSE x)

\* a + b
add(a, b) == addNum(ToNumber(a), ToNumber(b))
\* a - b
sub(a, b) == addNum(ToNumber(a), neg(ToNumber(b)))

\* the long division in base Digit.  One digit: the remainder rh, rl, which
\* is below the divisor yh, yl, is multiplied by Digit; q, the quotient of the
\* leading limbs, is at most the digit; t0 .. t3 are the limbs of q times the
\* divisor with their carries; the result is <<remainder high, remainder low,
\* digit>>
divNorm(q, high, low) ==
    IF low < 0 THEN <<high - 1, low + Limb, q>> ELSE <<high, low, q>>
divT3(rh, rl, q, t0, t1, t2, t3) ==
    divNorm(q, (rh - t3) * Digit + ((rl \div Digit) - (t2 % Digit)),
            ((rl % Digit) - (t1 % Digit)) * Digit - (t0 % Digit))
divT2(rh, rl, q, yh, t0, t1, t2) ==
    divT3(rh, rl, q, t0, t1, t2, q * (yh \div Digit) + t2 \div Digit)
divT1(rh, rl, q, yh, t0, t1) ==
    divT2(rh, rl, q, yh, t0, t1, q * (yh % Digit) + t1 \div Digit)
divT0(rh, rl, q, yh, yl, t0) ==
    divT1(rh, rl, q, yh, t0, q * (yl \div Digit) + t0 \div Digit)
divTimes(rh, rl, q, yh, yl) == divT0(rh, rl, q, yh, yl, q * (yl % Digit))
\* the divisor is taken from the remainder as long as it fits
RECURSIVE divFix(_, _, _)
divFix(st, yh, yl) ==
    IF st[1] > yh \/ (st[1] = yh /\ st[2] >= yl)
    THEN divFix(IF st[2] >= yl THEN <<st[1] - yh, st[2] - yl, st[3] + 1>>
                ELSE <<st[1] - yh - 1, st[2] - yl + Limb, st[3] + 1>>, yh, yl)
    ELSE st
divDigit(r, yh, yl) ==
    divFix(divTimes(r[1], r[2], r[1] \div (yh \div Digit + 1), yh, yl), yh, yl)

\* the quotient to 56 bits from its leading bit d0 and five digits d1 .. d5,
\* and a sticky bit for what is left
divPack(s, e, d0, d1, d2, d3, d4, d5) ==
    pack(s, e,
         d0[3] * 536870912 + d1[3] * 65536 + d2[3] * 8 + d3[3] \div 1024,
         (d3[3] % 1024) * 65536 + d4[3] * 8 + d5[3] \div 1024,
         IF d5[3] % 1024 = 0 /\ d5[1] = 0 /\ d5[2] = 0 THEN 0 ELSE 1)
div5(s, e, d0, d1, d2, d3, d4, yh, yl) ==
    divPack(s, e, d0, d1, d2, d3, d4, divDigit(d4, yh, yl))
div4(s, e, d0, d1, d2, d3, yh, yl) ==
    div5(s, e, d0, d1, d2, d3, divDigit(d3, yh, yl), yh, yl)
div3(s, e, d0, d1, d2, yh, yl) == div4(s, e, d0, d1, d2, divDigit(d2, yh, yl), yh, yl)
div2(s, e, d0, d1, yh, yl) == div3(s, e, d0, d1, divDigit(d1, yh, yl), yh, yl)
div1(s, e, d0, yh, yl) == div2(s, e, d0, divDigit(d0, yh, yl), yh, yl)

divNum(x, y) ==
    IF x = NaN \/ y = NaN THEN NaN
    ELSE IF x[3] = 0 \/ y[3] = 0
    THEN (IF IsInf(x) THEN (IF IsInf(y) THEN NaN ELSE Infinity((x[1] + y[1]) % 2))
          ELSE IF IsInf(y) THEN <<(x[1] + y[1]) % 2, 0, 0, 0>>
          ELSE IF IsZero(y) THEN (IF IsZero(x) THEN NaN ELSE Infinity((x[1] + y[1]) % 2))
          ELSE <<(x[1] + y[1]) % 2, 0, 0, 0>>)
    ELSE div1((x[1] + y[1]) % 2, x[2] - y[2] - 55,
              divFix(<<x[3], x[4], 0>>, y[3], y[4]), y[3], y[4])

\* a / b
div(a, b) == divNum(ToNumber(a), ToNumber(b))

\* the number written k / 10^n in the source or in a slider's value
decimal(k, n) == div(fromInt(k), fromInt(10^n))

\* one bit of the square root, digit by digit: st = <<remainder high,
\* remainder low, root high, root low>>, pair = the next two bits of the
\* radicand
rootTry(nh, nl, th, tl, qh, ql) ==
    IF nh > th \/ (nh = th /\ nl >= tl)
    THEN (IF nl >= tl
          THEN <<nh - th, nl - tl, 2 * qh + (2 * ql + 1) \div Limb, (2 * ql + 1) % Limb>>
          ELSE <<nh - th - 1, nl - tl + Limb, 2 * qh + (2 * ql + 1) \div Limb, (2 * ql + 1) % Limb>>)
    ELSE <<nh, nl, 2 * qh + (2 * ql) \div Limb, (2 * ql) % Limb>>
rootStep(st, pair) ==
    rootTry(4 * st[1] + (4 * st[2] + pair) \div Limb, (4 * st[2] + pair) % Limb,
            4 * st[3] + (4 * st[4] + 1) \div Limb, (4 * st[4] + 1) % Limb, st[3], st[4])

\* six bits of root from the twelve bits v of radicand, two at a time: p is
\* the place of the next two
RECURSIVE sextet(_, _, _)
sextet(st, v, p) ==
    <<st, IF p = 0 THEN st ELSE sextet(rootStep(st, (v \div p) % 4), v, p \div 4)>>[2]

\* the 54-bit root of (Mh * Limb + Ml) * 2^54 and its remainder
rootOf(Mh, Ml) ==
    sextet(sextet(sextet(sextet(sextet(sextet(sextet(sextet(sextet(<<0, 0, 0, 0>>,
        Mh \div 65536, 1024), (Mh \div 16) % 4096, 1024),
        (Mh % 16) * 256 + Ml \div 262144, 1024), (Ml \div 64) % 4096, 1024),
        (Ml % 64) * 64, 1024), 0, 1024), 0, 1024), 0, 1024), 0, 1024)

sqrtPack(e, st) == pack(0, e, st[3], st[4], IF st[1] = 0 /\ st[2] = 0 THEN 0 ELSE 1)

\* Math.sqrt(x)
sqrt(x) ==
    IF x = NaN THEN NaN
    ELSE IF x[3] = 0 THEN (IF IsInf(x) /\ x[1] = 1 THEN NaN ELSE x)
    ELSE IF x[1] = 1 THEN NaN
    ELSE sqrtPack((x[2] - (x[2] % 2)) \div 2 - 27,
                  rootOf((1 + (x[2] % 2)) * x[3] + ((1 + (x[2] % 2)) * x[4]) \div Limb,
                         ((1 + (x[2] % 2)) * x[4]) % Limb))

\* x < y on numbers: false when either is NaN, and -0 is not below +0
lessNum(x, y) ==
    /\ x[1] < 2 /\ y[1] < 2
    /\ ~(IsZero(x) /\ IsZero(y))
    /\ x # y
    /\ IF x[1] # y[1] THEN x[1] = 1
       ELSE IF x[1] = 0
       THEN IsZero(x) \/ IsInf(y) \/ (~IsZero(y) /\ ~IsInf(x) /\ bigger(y, x))
       ELSE IsZero(y) \/ IsInf(x) \/ (~IsZero(x) /\ ~IsInf(y) /\ bigger(x, y))

\* a < b
less(a, b) == lessNum(ToNumber(a), ToNumber(b))
\* a <= b
lessEq(a, b) ==
    /\ ToNumber(a)[1] < 2 /\ ToNumber(b)[1] < 2
    /\ ~lessNum(ToNumber(b), ToNumber(a))

\* Math.min(a, b)
min(a, b) ==
    IF ToNumber(a) = NaN \/ ToNumber(b) = NaN THEN NaN
    ELSE IF lessNum(ToNumber(b), ToNumber(a)) THEN ToNumber(b)
    ELSE IF IsZero(ToNumber(a)) /\ IsZero(ToNumber(b)) /\ ToNumber(b)[1] = 1 THEN ToNumber(b)
    ELSE ToNumber(a)

\* Math.hypot(x, y) for a, b = |x|, |y|, as V8 computes it: both are divided
\* by the larger, m, before they are squared, and the root is multiplied by m
hypotSum(p, q) == add(mul(p, p), mul(q, q))
hypotOf(a, b, m) == mul(sqrt(hypotSum(div(a, m), div(b, m))), m)
hypotNum(a, b) ==
    IF IsInf(a) \/ IsInf(b) THEN Infinity(0)
    ELSE IF a = NaN \/ b = NaN THEN NaN
    ELSE IF IsZero(a) /\ IsZero(b) THEN zero
    ELSE hypotOf(a, b, IF lessNum(a, b) THEN b ELSE a)
hypot(dx, dy) == hypotNum(abs(ToNumber(dx)), abs(ToNumber(dy)))

\* p5 dist(x1, y1, x2, y2)
dist(ax, ay, bx, by) == hypot(sub(bx, ax), sub(by, ay))

\* p5 lerp(start, stop, amt): amt * (stop - start) + start
lerp(start, stop, amt) == add(mul(amt, sub(stop, start)), start)

\* Math.round of a finite non-zero x with -52 <= e <= -1: J is the
\* significand shifted right by -e - 1 bits, so its last bit is the half; a
\* half goes up, toward +Infinity
roundInc(s, Ih, Il, inc) == pack(s, 0, Ih + (Il + inc) \div Limb, (Il + inc) % Limb, 0)
roundUp(s, J) ==
    roundInc(s, J[1] \div 2, (J[1] % 2) * (Limb \div 2) + J[2] \div 2,
             IF J[2] % 2 = 1 /\ (s = 0 \/ J[3]) THEN 1 ELSE 0)

\* p5 round(x), which is Math.round(x)
round(x) ==
    IF x[1] >= 2 \/ x[3] = 0 \/ x[2] >= 0 THEN x
    ELSE IF x[2] <= -54 THEN <<x[1], 0, 0, 0>>
    ELSE roundUp(x[1], shr(x[3], x[4], -x[2] - 1, FALSE))

\* round(v / 10) * 10, the grid snap of mouseDragged
snap10(v) == mul(round(div(v, fromInt(10))), fromInt(10))

\* fdlibm's __kernel_tan, which V8's Math.tan runs for |x| <= pi/4: the
\* coefficients T[0] .. T[12]
tanT ==
    <<<<0, -54, 89478485, 22369635>>, <<0, -55, 71582788, 17890938>>,
      <<0, -57, 115895942, 62079486>>, <<0, -58, 93928737, 448055>>,
      <<0, -59, 76134650, 24020115>>, <<0, -61, 123422898, 22414120>>,
      <<0, -62, 100069951, 48268053>>, <<0, -63, 80819772, 49440001>>,
      <<0, -64, 67747270, 42799208>>, <<0, -66, 85959208, 3642022>>,
      <<0, -66, 78513100, 49326057>>, <<1, -68, 81621750, 56644467>>,
      <<0, -68, 113941533, 12548820>>>>
\* pio4 = 0x3FE921FB54442D18, which is also Math.PI / 4, and pio4lo
pio4 == <<0, -53, 105414357, 4467992>>
pio4lo == <<0, -107, 74025356, 51665927>>
\* |x| with high word 0x3FE59428 and above (about 0.6744) is reflected to
\* pi/4 - |x|
tanBigFrom == <<0, -53, 90507776, 0>>
\* |x| below 2^-28 is its own tangent
tanTinyBelow == <<0, -80, 67108864, 0>>

\* T[i] + w * (T[i + 2] + w * (... + w * T[n])), from the innermost product
\* outwards: acc is T[j + 2] + w * (... + w * T[n])
RECURSIVE tanPoly(_, _, _, _)
tanPoly(w, i, j, acc) ==
    <<acc, IF j < i THEN acc ELSE tanPoly(w, i, j - 2, add(tanT[j + 1], mul(w, acc)))>>[2]

\* r = y + z * (s * (r + v) + y); r += T[0] * s, with y = 0
tanR(z, s, r, v) ==
    <<s, r, v, add(add(zero, mul(z, add(mul(s, add(r, v)), zero))), mul(tanT[1], s))>>[4]
\* r, from x, z = x * x and w = z * z
tanSum(x, z, w) ==
    <<z, w, tanR(z, mul(z, x), tanPoly(w, 1, 9, tanT[12]), mul(z, tanPoly(w, 2, 10, tanT[13])))>>[3]
\* v - 2.0 * (x - (w * w / (w + v) - r)) with v = 1 and w = x + r
tanReflect(x, r, w) ==
    <<w, sub(fromInt(1), mul(fromInt(2), sub(x, sub(div(mul(w, w), add(w, fromInt(1))), r))))>>[2]
tanBig(x, r) == <<r, tanReflect(x, r, add(x, r))>>[2]
\* the end of __kernel_tan: x + r, or the reflection for a big argument
tanEnd(x, r, big) == IF big THEN tanBig(x, r) ELSE add(x, r)
tanKernel(x, big) ==
    <<x, tanEnd(x, tanSum(x, mul(x, x), mul(mul(x, x), mul(x, x))), big)>>[2]
\* a big argument is reflected first: z = pio4 - |x|; w = pio4lo - y;
\* x = z + w, and the sign of x goes to the result
tanArg(x, big) == IF big THEN add(sub(pio4, abs(x)), sub(pio4lo, zero)) ELSE x
tanSigned(x, big, v) == IF big /\ x[1] = 1 THEN neg(v) ELSE v
tanIn(x, big) == tanSigned(x, big, tanKernel(tanArg(x, big), big))

\* Math.tan(x) for |x| <= pi/4
tan(x) ==
    IF x[1] >= 2 \/ x[3] = 0 THEN x
    ELSE IF lessNum(abs(x), tanTinyBelow) THEN x
    ELSE tanIn(x, ~lessNum(abs(x), tanBigFrom))
-----------------------------------------------------------------------------
(* Path commands: opentype.js command objects {type, x, y, x1, y1, x2, y2} *)

Cmd(t, x1, y1, x2, y2, x, y) ==
    [type |-> t, x |-> x, y |-> y, x1 |-> x1, y1 |-> y1, x2 |-> x2, y2 |-> y2]

\* the commands that p.moveTo, p.lineTo, p.curveTo, p.quadTo and p.close push,
\* called with integer literals
moveTo(x, y) == Cmd("M", Undefined, Undefined, Undefined, Undefined, fromInt(x), fromInt(y))
lineTo(x, y) == Cmd("L", Undefined, Undefined, Undefined, Undefined, fromInt(x), fromInt(y))
curveTo(x1, y1, x2, y2, x, y) ==
    Cmd("C", fromInt(x1), fromInt(y1), fromInt(x2), fromInt(y2), fromInt(x), fromInt(y))
quadTo(x1, y1, x, y) ==
    Cmd("Q", fromInt(x1), fromInt(y1), Undefined, Undefined, fromInt(x), fromInt(y))
close == Cmd("Z", Undefined, Undefined, Undefined, Undefined, Undefined, Undefined)

\* 'x' in c, 'x1' in c, 'x2' in c
HasX(c) == c.x # Undefined
HasY(c) == c.y # Undefined
HasX1(c) == c.x1 # Undefined
HasY1(c) == c.y1 # Undefined
HasX2(c) == c.x2 # Undefined
HasY2(c) == c.y2 # Undefined

\* JSON.parse(JSON.stringify(v)) of one slot: a finite number comes back as it
\* was, except that -0 comes back as 0; NaN and the infinities come back as
\* null; an absent property stays absent
jsonValue(v) ==
    IF v = NaN THEN Null
    ELSE IF v[1] < 2 /\ v[3] = 0 THEN (IF v[2] = 1 THEN Null ELSE zero)
    ELSE v

copyCommand(c) ==
    [type |-> c.type,
     x  |-> jsonValue(c.x),  y  |-> jsonValue(c.y),
     x1 |-> jsonValue(c.x1), y1 |-> jsonValue(c.y1),
     x2 |-> jsonValue(c.x2), y2 |-> jsonValue(c.y2)]

\* the elements f[1], f[2], ... listed as an array
array(f) == f \o <<>>

copyCommands(cmds) == array([i \in 1..Len(cmds) |-> copyCommand(cmds[i])])

-----------------------------------------------------------------------------
(* Glyph outlines *)

\* GlyphModel.generate, no font: p.moveTo(0, 0); p.lineTo(40, 120);
\* p.lineTo(80, 0); p.close()
fallbackPath == <<moveTo(0, 0), lineTo(40, 120), lineTo(80, 0), close>>

\* The fonts that load and the characters typed into the Letter field.
\* Font 1 has 72 units per em, so that getPath(0, 0, 72) draws its outlines at
\* the whole numbers below: "A" with two cubics that meet at (40, 0), a line,
\* and a third cubic after the line, "B" with one quadratic.  Every control
\* point lies inside the box of the anchors, so the outline's bounding box is
\* the same whether or not control points count toward it.  Font 2 has 1000
\* units per em and one glyph for every character, a triangle with a left
\* side bearing of 7 units.
Fonts == {1, 2}
Chars == {"A", "B"}

glyphA ==
    <<moveTo(0, 0),
      curveTo(10, 20, 40, 20, 40, 0),
      curveTo(52, 16, 70, 20, 80, 0),
      lineTo(80, 60),
      curveTo(60, 40, 20, 40, 0, 60),
      close>>

glyphB == <<moveTo(0, 0), quadTo(20, 40, 40, 0), close>>

\* Glyph.getPath(0, 0, 72) draws the point (ux, uy) of an outline in font
\* units at (0 + ux * scale, 0 + (-uy * scale)) with scale = 1 / unitsPerEm *
\* 72; drawn(u, upm) is the coordinate for u = ux and for u = -uy
drawn(u, upm) == add(zero, mul(fromInt(u), mul(div(fromInt(1), fromInt(upm)), fromInt(72))))

\* the triangle (7, 0), (67, 700), (127, 0) of font 2
glyphT ==
    <<Cmd("M", Undefined, Undefined, Undefined, Undefined, drawn(7, 1000), drawn(0, 1000)),
      Cmd("L", Undefined, Undefined, Undefined, Undefined, drawn(67, 1000), drawn(-700, 1000)),
      Cmd("L", Undefined, Undefined, Undefined, Undefined, drawn(127, 1000), drawn(0, 1000)),
      close>>

\* font.charToGlyph(ch).getPath(0, 0, 72).commands
getPath(f, ch) == IF f = 2 THEN glyphT ELSE IF ch = "A" THEN glyphA ELSE glyphB

defaultParams ==
    [width |-> fromInt(1), height |-> fromInt(1), weight |-> zero, slant |-> zero,
     roundness |-> zero]

\* GlyphModel.maxHist
maxHist == 60

-----------------------------------------------------------------------------
(* Bounding box *)

\* the smallest and the largest of a non-empty set of finite numbers
Min(S) == CHOOSE m \in S : \A n \in S : ~lessNum(n, m)
Max(S) == CHOOSE m \in S : \A n \in S : ~lessNum(m, n)

xsOf(cmds) ==
    {cmds[i].x  : i \in {j \in 1..Len(cmds) : IsNum(cmds[j].x)}} \cup
    {cmds[i].x1 : i \in {j \in 1..Len(cmds) : IsNum(cmds[j].x1)}} \cup
    {cmds[i].x2 : i \in {j \in 1..Len(cmds) : IsNum(cmds[j].x2)}}

ysOf(cmds) ==
    {cmds[i].y  : i \in {j \in 1..Len(cmds) : IsNum(cmds[j].y)}} \cup
    {cmds[i].y1 : i \in {j \in 1..Len(cmds) : IsNum(cmds[j].y1)}} \cup
    {cmds[i].y2 : i \in {j \in 1..Len(cmds) : IsNum(cmds[j].y2)}}

\* opentype.Path.getBoundingBox: the box of the anchors and control points;
\* no finite box for a path without points
getBoundingBox(cmds) ==
    IF xsOf(cmds) = {} \/ ysOf(cmds) = {}
    THEN [finite |-> FALSE, x1 |-> zero, y1 |-> zero, x2 |-> zero, y2 |-> zero]
    ELSE [finite |-> TRUE,
          x1 |-> Min(xsOf(cmds)), y1 |-> Min(ysOf(cmds)),
          x2 |-> Max(xsOf(cmds)), y2 |-> Max(ysOf(cmds))]

boxOf(b) ==
    IF ~b.finite THEN [x |-> zero, y |-> zero, w |-> zero, h |-> zero]
    ELSE [x |-> b.x1, y |-> b.y1, w |-> sub(b.x2, b.x1), h |-> sub(b.y2, b.y1)]

bboxOf(cmds, ot) ==
    IF ~ot THEN [x |-> zero, y |-> zero, w |-> fromInt(100), h |-> fromInt(100)]
    ELSE boxOf(getBoundingBox(copyCommands(cmds)))

-----------------------------------------------------------------------------
(* Transform engine: GlyphModel.applyParams, up to the assignment of cmds *)

\* Math.tan(this.params.slant * (Math.PI / 4)); the slider keeps slant in
\* -1 .. 1, so the argument is within pi/4 of zero
tanOf(slant) == tan(mul(slant, pio4))

\* c.x += c.y * tanv
slanted(x, y, tanv) == add(x, mul(y, tanv))

slantCommand(c, tanv) ==
    [c EXCEPT !.x  = IF HasX(c)  /\ HasY(c)  THEN slanted(c.x,  c.y,  tanv) ELSE @,
              !.x1 = IF HasX1(c) /\ HasY1(c) THEN slanted(c.x1, c.y1, tanv) ELSE @,
              !.x2 = IF HasX2(c) /\ HasY2(c) THEN slanted(c.x2, c.y2, tanv) ELSE @]

slantBy(cmds, tanv) ==
    <<tanv, array([i \in 1..Len(cmds) |-> slantCommand(cmds[i], tanv)])>>[2]

\* if (this.params.slant !== 0) ...
slantCommands(cmds, p) ==
    IF IsZero(p.slant) THEN cmds ELSE slantBy(cmds, tanOf(p.slant))

\* (v - origin) * factor + origin
scaled(v, origin, factor) == add(mul(sub(v, origin), factor), origin)

scaleCommand(c, bb, p) ==
    [c EXCEPT !.x  = IF HasX(c)  THEN scaled(c.x,  bb.x, p.width)  ELSE @,
              !.x1 = IF HasX1(c) THEN scaled(c.x1, bb.x, p.width)  ELSE @,
              !.x2 = IF HasX2(c) THEN scaled(c.x2, bb.x, p.width)  ELSE @,
              !.y  = IF HasY(c)  THEN scaled(c.y,  bb.y, p.height) ELSE @,
              !.y1 = IF HasY1(c) THEN scaled(c.y1, bb.y, p.height) ELSE @,
              !.y2 = IF HasY2(c) THEN scaled(c.y2, bb.y, p.height) ELSE @]

scaleIn(cmds, bb, p) ==
    IF lessNum(zero, bb.w) /\ lessNum(zero, bb.h)
    THEN array([i \in 1..Len(cmds) |-> scaleCommand(cmds[i], bb, p)])
    ELSE cmds

scaleCommands(cmds, p, ot) == <<cmds, scaleIn(cmds, bboxOf(cmds, ot), p)>>[2]

roundCommand(c, t) ==
    IF c.type = "C"
    THEN [c EXCEPT !.x1 = lerp(c.x1, c.x, t), !.y1 = lerp(c.y1, c.y, t),
                   !.x2 = lerp(c.x2, c.x, t), !.y2 = lerp(c.y2, c.y, t)]
    ELSE IF c.type = "Q"
    THEN [c EXCEPT !.x1 = lerp(c.x1, c.x, t), !.y1 = lerp(c.y1, c.y, t)]
    ELSE c

roundCommands(cmds, p) ==
    IF less(zero, p.roundness)
    THEN array([i \in 1..Len(cmds) |-> roundCommand(cmds[i], p.roundness)])
    ELSE cmds

\* the cmds that applyParams assigns to this.path.commands
transformed(orig, p, ot) ==
    roundCommands(scaleCommands(slantCommands(copyCommands(orig), p), p, ot), p)

-----------------------------------------------------------------------------
(* Randomizer: p5 randomSeed / random, a 32-bit linear congruential generator *)
(* z' = (1664525 * z + 1013904223) % 2^32, kept as <<high, low>> 16-bit halves *)

lcgSeed(seed) == <<(seed \div 65536) % 65536, seed % 65536>>

lcgNext(z) ==
    LET p    == 26125 * z[2]
        low  == (p % 65536) + 62303
        high == 25 * z[2] + 26125 * z[1] + (p \div 65536) + 15470 + (low \div 65536)
    IN  <<high % 65536, low % 65536>>

\* 5 * n / 2^30 for n = |z - 2^31| given as n = dh * Limb + dl
offsetPack(s, dh, dl) ==
    pack(s, -30, 5 * dh + (5 * dl) \div Limb, (5 * dl) % Limb, 0)

\* (random() - 0.5) * s with s = 20, for the generator state z = <<high, low>>
\* just drawn: random() is z / 2^32, so the offset is (z - 2^31) * 5 / 2^30,
\* and none of the three operations rounds
offsetOf(z) ==
    IF z[1] >= 32768
    THEN offsetPack(0, ((z[1] - 32768) * 65536 + z[2]) \div Limb,
                    ((z[1] - 32768) * 65536 + z[2]) % Limb)
    ELSE offsetPack(1, ((32767 - z[1]) * 65536 + (65535 - z[2])) \div Limb,
                    (((32767 - z[1]) * 65536 + (65535 - z[2])) % Limb) + 1)

\* the number of random() calls randomize makes for one command
drawsOf(c) ==
    (IF c.type # "Z" THEN (IF HasX(c) THEN 1 ELSE 0) + (IF HasY(c) THEN 1 ELSE 0) ELSE 0)
    + (IF c.type = "C" THEN 4 ELSE IF c.type = "Q" THEN 2 ELSE 0)

RECURSIVE lcgSkip(_, _)
lcgSkip(z, n) == IF n = 0 THEN z ELSE lcgSkip(lcgNext(z), n - 1)

\* one command of the loop of randomize, entered with generator state z
randomizeCommand(c, z) ==
    LET dx  == c.type # "Z" /\ HasX(c)
        dy  == c.type # "Z" /\ HasY(c)
        z1  == IF dx THEN lcgNext(z) ELSE z
        z2  == IF dy THEN lcgNext(z1) ELSE z1
        z3  == lcgNext(z2)
        z4  == lcgNext(z3)
        z5  == lcgNext(z4)
        z6  == lcgNext(z5)
        c1  == [c EXCEPT !.x = IF dx THEN add(@, offsetOf(z1)) ELSE @,
                         !.y = IF dy THEN add(@, offsetOf(z2)) ELSE @]
    IN  IF c.type = "C"
        THEN [c1 EXCEPT !.x1 = add(@, offsetOf(z3)), !.y1 = add(@, offsetOf(z4)),
                        !.x2 = add(@, offsetOf(z5)), !.y2 = add(@, offsetOf(z6))]
        ELSE IF c.type = "Q"
        THEN [c1 EXCEPT !.x1 = add(@, offsetOf(z3)), !.y1 = add(@, offsetOf(z4))]
        ELSE c1

RECURSIVE drawsBefore(_, _)
drawsBefore(cmds, i) ==
    IF i <= 1 THEN 0 ELSE drawsBefore(cmds, i - 1) + drawsOf(cmds[i - 1])

\* the commands of this.path after the loop of randomize(seed)
randomized(cmds, seed) ==
    array([i \in 1..Len(cmds) |->
              randomizeCommand(cmds[i], lcgSkip(lcgSeed(seed), drawsBefore(cmds, i)))])

-----------------------------------------------------------------------------
(* History manager: GlyphModel.saveState, _load, undo, redo *)

snapshotOf(p, pr) == [path |-> copyCommands(p), params |-> pr]

\* saveState() that forgets `this.redoStack = []`
saveStateKeepsRedo(u, r, p, pr) ==
    LET pushed == Append(u, snapshotOf(p, pr))
    IN  [undoStack |-> IF Len(pushed) > maxHist THEN Tail(pushed) ELSE pushed,
         redoStack |-> r]

\* saveState() that calls pop() where the code calls shift(): over capacity it
\* drops the snapshot it has just pushed
saveStateEvictsNewest(u, r, p, pr) ==
    LET pushed == Append(u, snapshotOf(p, pr))
    IN  [undoStack |-> IF Len(pushed) > maxHist THEN u ELSE pushed,
         redoStack |-> <<>>]

\* saveState() on stacks u (undo) and r (redo) with the model at (p, pr)
saveState(u, r, p, pr) ==
    LET pushed == Append(u, snapshotOf(p, pr))
    IN  [undoStack |-> IF Len(pushed) > maxHist THEN Tail(pushed) ELSE pushed,
         redoStack |-> <<>>]

\* _load(state): the (path, params) the model holds afterwards
load(state) == [path |-> copyCommands(state.path), params |-> state.params]

\* undo() that tests `length > 0`: it pops the baseline too
undoPopsBaseline(u, r) ==
    IF Len(u) > 0
    THEN [undoStack |-> SubSeq(u, 1, Len(u) - 1),
          redoStack |-> Append(r, u[Len(u)]),
          loaded    |-> IF Len(u) > 1 THEN <<u[Len(u) - 1]>> ELSE <<>>]
    ELSE [undoStack |-> u, redoStack |-> r, loaded |-> <<>>]

\* undo(): the stacks afterwards, and the snapshot handed to _load (none: <<>>)
undo(u, r) ==
    IF Len(u) > 1
    THEN [undoStack |-> SubSeq(u, 1, Len(u) - 1),
          redoStack |-> Append(r, u[Len(u)]),
          loaded    |-> <<u[Len(u) - 1]>>]
    ELSE [undoStack |-> u, redoStack |-> r, loaded |-> <<>>]

\* redo() that reads the top of the redo stack where the code pops it
redoKeepsFuture(u, r) ==
    IF Len(r) # 0
    THEN [undoStack |-> Append(u, r[Len(r)]),
          redoStack |-> r,
          loaded    |-> <<r[Len(r)]>>]
    ELSE [undoStack |-> u, redoStack |-> r, loaded |-> <<>>]

\* redo(): the stacks afterwards, and the snapshot handed to _load (none: <<>>)
redo(u, r) ==
    IF Len(r) # 0
    THEN [undoStack |-> Append(u, r[Len(r)]),
          redoStack |-> SubSeq(r, 1, Len(r) - 1),
          loaded    |-> <<r[Len(r)]>>]
    ELSE [undoStack |-> u, redoStack |-> r, loaded |-> <<>>]

\* generate(ch) returns: with opentype the font branch or the fallback branch
\* builds an outline; without it the fallback branch is taken and throws,
\* since newPath() returns the plain object {commands: []} and p.moveTo is not
\* a function
generates(ot) == ot

\* generate(ch): <<the outline assigned to originalPath>>, or <<>> when it
\* throws
generated(f, ot, ch) ==
    IF f # 0 /\ ot THEN <<copyCommands(getPath(f, ch))>>
    ELSE IF ot THEN <<copyCommands(fallbackPath)>>
    ELSE <<>>

-----------------------------------------------------------------------------
(* History variables *)

Op(name, arg) == [op |-> name, arg |-> arg, cleared |-> 0]

\* a handler that has called saveState() outside reset() on a redo stack r
OpCommit(name, arg, r) == [op |-> name, arg |-> arg, cleared |-> Len(r)]

\* a saveState() outside reset(): counted while nothing but commits followed the reset
Committed(snap) ==
    /\ everReset' = everReset
    /\ IF phase = "fresh"
       THEN /\ phase' = "fresh"
            /\ commits' = commits + 1
            /\ snaps' = Append(snaps, snap)
       ELSE /\ phase' = "other"
            /\ commits' = 0
            /\ snaps' = <<>>

\* reset(): the count starts again from the baseline snapshot
Restarted(snap) ==
    /\ everReset' = TRUE
    /\ phase' = "fresh"
    /\ commits' = 0
    /\ snaps' = <<snap>>

-----------------------------------------------------------------------------
(* Model operations *)

\* reset() with originalPath already set to orig
Reset(orig) ==
    LET p == copyCommands(orig)
        s == saveState(<<>>, <<>>, p, defaultParams)
    IN  /\ originalPath' = orig
        /\ path' = p
        /\ params' = defaultParams
        /\ undoStack' = s.undoStack
        /\ redoStack' = s.redoStack
        /\ Restarted(snapshotOf(p, defaultParams))

\* generate(ch) for a non-empty ch: this.char is assigned before anything can
\* throw, originalPath and reset() come after
GenerateAs(ch, g) ==
    /\ char' = ch
    /\ IF g # <<>>
       THEN Reset(g[1])
       ELSE UNCHANGED <<originalPath, path, params, undoStack, redoStack, historyVars>>
Generate(f, ch) == GenerateAs(ch, generated(f, opentypeOK, ch))

-----------------------------------------------------------------------------
(* Editor: point references, hit testing, getPoint, setPoint *)

Ref(i, t) == [index |-> i, type |-> t]

noDrag == [kind |-> "none", index |-> 0, type |-> ""]
canvasDrag == [kind |-> "canvas", index |-> 0, type |-> ""]
pointDrag(t) == [kind |-> "point", index |-> t.index, type |-> t.type]
refOf(d) == Ref(d.index, d.type)

\* layout constants
PREVIEW_W == 360
UI_W == 290
MIN_CANVAS_H == 560

\* the size createCanvas and resizeCanvas give the canvas in a window of
\* w x h pixels
canvasOf(w, h) ==
    [width  |-> IF w > UI_W + PREVIEW_W + 100 THEN w ELSE UI_W + PREVIEW_W + 100,
     height |-> IF h > MIN_CANVAS_H THEN h ELSE MIN_CANVAS_H]

\* the rectangle that the Editor constructor and draw() assign to
\* editor._lastEditorArea, from the canvas size of the moment, in pixels
editorArea(cv) ==
    [x |-> UI_W + 10, y |-> 10, w |-> cv.width - (UI_W + PREVIEW_W + 30), h |-> cv.height - 20]

mouseInRect(mouseX, mouseY, r) ==
    mouseX >= r.x /\ mouseX <= r.x + r.w /\ mouseY >= r.y /\ mouseY <= r.y + r.h

\* the centre of the area along one axis: area.x + area.w / 2
centre(o, len) == add(fromInt(o), div(fromInt(len), fromInt(2)))

\* worldMouse(area)
worldMouse(mouseX, mouseY, area, c) ==
    [x |-> div(sub(sub(fromInt(mouseX), centre(area.x, area.w)), c.x), c.z),
     y |-> div(sub(sub(fromInt(mouseY), centre(area.y, area.h)), c.y), c.z)]

\* the camera of fitTo for the box bb and the zoom z
fitCam(bb, z) ==
    [x |-> mul(neg(add(bb.x, div(bb.w, fromInt(2)))), z),
     y |-> mul(neg(add(bb.y, div(bb.h, fromInt(2)))), z),
     z |-> z]

\* fitTo past the test of the box: pad = 50, Math.min(sx, sy) * 0.9
fitBox(bb, area) ==
    fitCam(bb, <<mul(min(div(fromInt(area.w - 50 * 2), bb.w),
                         div(fromInt(area.h - 50 * 2), bb.h)), decimal(9, 1))>>[1])

fitOr(bb, area, c) ==
    IF lessEq(bb.w, zero) \/ lessEq(bb.h, zero) THEN c ELSE fitBox(bb, area)

\* Editor.fitTo(area): the camera afterwards
fitTo(cmds, ot, area, c) == fitOr(bboxOf(cmds, ot), area, c)

\* dist(mx, my, px, py) < r
within(mx, my, px, py, r) == less(dist(mx, my, px, py), r)

\* the points of command i that pointHit tests, in the order it tests them
tests(c, i) ==
    IF c.type = "C"
    THEN <<[ref |-> Ref(i, "c1"), x |-> c.x1, y |-> c.y1],
           [ref |-> Ref(i, "c2"), x |-> c.x2, y |-> c.y2],
           [ref |-> Ref(i, "anchor"), x |-> c.x, y |-> c.y]>>
    ELSE IF c.type = "Q"
    THEN <<[ref |-> Ref(i, "q"), x |-> c.x1, y |-> c.y1],
           [ref |-> Ref(i, "anchor"), x |-> c.x, y |-> c.y]>>
    ELSE IF c.type # "Z" THEN <<[ref |-> Ref(i, "anchor"), x |-> c.x, y |-> c.y]>>
    ELSE <<>>

\* the first of the tests ts[k..] that is within r: <<ref>> or <<>>
RECURSIVE hitAmong(_, _, _, _, _)
hitAmong(ts, k, mx, my, r) ==
    IF k > Len(ts) THEN <<>>
    ELSE IF within(mx, my, ts[k].x, ts[k].y, r) THEN <<ts[k].ref>>
    ELSE hitAmong(ts, k + 1, mx, my, r)

\* what one command contributes to pointHit: <<ref>> or <<>>
hitAt(cmds, i, mx, my, r) == hitAmong(tests(cmds[i + 1], i), 1, mx, my, r)

RECURSIVE hitFrom(_, _, _, _, _)
hitFrom(cmds, i, mx, my, r) ==
    IF i < 0 THEN <<>>
    ELSE LET h == hitAt(cmds, i, mx, my, r)
         IN  IF h # <<>> THEN h ELSE hitFrom(cmds, i - 1, mx, my, r)

\* pointHit(mx, my, hit = 10): <<ref>>, or <<>> for null
pointHit(cmds, mx, my, z) ==
    hitFrom(cmds, Len(cmds) - 1, mx, my, <<div(fromInt(10), z)>>[1])

\* getPoint(ref) throws (TypeError on c.x) when no command has that index
throws(cmds, ref) == ref.index + 1 > Len(cmds)

getPoint(cmds, ref) ==
    LET c == cmds[ref.index + 1]
    IN  IF ref.type = "anchor" THEN [x |-> c.x, y |-> c.y]
        ELSE IF ref.type = "c1" THEN [x |-> c.x1, y |-> c.y1]
        ELSE IF ref.type = "c2" THEN [x |-> c.x2, y |-> c.y2]
        ELSE IF ref.type = "q" THEN [x |-> c.x1, y |-> c.y1]
        ELSE [x |-> zero, y |-> zero]

RECURSIVE prevFrom(_, _)
prevFrom(cmds, k) ==
    IF k < 0 THEN -1 ELSE IF cmds[k + 1].type = "C" THEN k ELSE prevFrom(cmds, k - 1)

RECURSIVE nextFrom(_, _)
nextFrom(cmds, k) ==
    IF k >= Len(cmds) THEN -1 ELSE IF cmds[k + 1].type = "C" THEN k ELSE nextFrom(cmds, k + 1)

prevCurve(cmds, i) == prevFrom(cmds, i)
nextCurve(cmds, i) == nextFrom(cmds, i + 1)

\* setPoint, ref.type === 'anchor'
setAnchor(cmds, ref, x, y) ==
    LET i  == ref.index + 1
        c  == cmds[i]
        dx == sub(x, c.x)
        dy == sub(y, c.y)
        ni == nextCurve(cmds, ref.index)
        c1 == [c EXCEPT !.x = x, !.y = y,
                        !.x2 = IF c.type = "C" THEN add(@, dx) ELSE @,
                        !.y2 = IF c.type = "C" THEN add(@, dy) ELSE @]
        moved == [cmds EXCEPT ![i] = c1]
    IN  IF ni # -1
        THEN [moved EXCEPT ![ni + 1].x1 = add(@, dx), ![ni + 1].y1 = add(@, dy)]
        ELSE moved

\* setPoint, the assignment of a control point
setControl(cmds, ref, x, y) ==
    LET i == ref.index + 1
    IN  IF ref.type = "c1" THEN [cmds EXCEPT ![i].x1 = x, ![i].y1 = y]
        ELSE IF ref.type = "c2" THEN [cmds EXCEPT ![i].x2 = x, ![i].y2 = y]
        ELSE IF ref.type = "q" THEN [cmds EXCEPT ![i].x1 = x, ![i].y1 = y]
        ELSE cmds

\* the command whose end point setPoint takes as the anchor of the lock
\* (0-based; -1: none)
lockAnchor(cmds, ref) ==
    IF ref.type = "c2" THEN ref.index
    ELSE IF ref.type = "c1" THEN prevCurve(cmds, ref.index)
    ELSE -1

\* the command and the control of it that setPoint mirrors (-1: none)
lockOpp(cmds, ref) ==
    IF ref.type = "c2" THEN [index |-> nextCurve(cmds, ref.index), key |-> "c1"]
    ELSE IF ref.type = "c1" THEN [index |-> prevCurve(cmds, ref.index), key |-> "c2"]
    ELSE [index |-> -1, key |-> ""]

\* one coordinate of the mirrored control: a - d / len * ol
mirror(a, d, len, ol) == sub(a, mul(div(d, len), ol))

\* len = Math.hypot(dx, dy) || 1
orOne(h) == IF h = NaN \/ IsZero(h) THEN fromInt(1) ELSE h

\* the mirroring from the anchor (ax, ay), the offset (dx, dy) of the dragged
\* control, its length and the length ol of the opposite handle
lockFrom(cmds, opp, ax, ay, dx, dy, len, ol) ==
    <<len, ol,
      IF opp.key = "c1"
      THEN [cmds EXCEPT ![opp.index + 1].x1 = mirror(ax, dx, len, ol),
                        ![opp.index + 1].y1 = mirror(ay, dy, len, ol)]
      ELSE [cmds EXCEPT ![opp.index + 1].x2 = mirror(ax, dx, len, ol),
                        ![opp.index + 1].y2 = mirror(ay, dy, len, ol)]>>[3]

lockAt(cmds, opp, o, ax, ay, x, y) ==
    lockFrom(cmds, opp, ax, ay, sub(x, ax), sub(y, ay),
             orOne(hypot(sub(x, ax), sub(y, ay))),
             dist(ax, ay, IF opp.key = "c1" THEN o.x1 ELSE o.x2,
                          IF opp.key = "c1" THEN o.y1 ELSE o.y2))

\* setPoint, the lockCollinear branch, on the commands with the control assigned
lockCollinear(cmds, ref, x, y) ==
    IF lockAnchor(cmds, ref) = -1 \/ lockOpp(cmds, ref).index = -1 THEN cmds
    ELSE lockAt(cmds, lockOpp(cmds, ref), cmds[lockOpp(cmds, ref).index + 1],
                cmds[lockAnchor(cmds, ref) + 1].x, cmds[lockAnchor(cmds, ref) + 1].y, x, y)

setPoint(cmds, ref, x, y, lock) ==
    IF ref.type = "anchor" THEN setAnchor(cmds, ref, x, y)
    ELSE IF lock /\ ref.type \in {"c1", "c2"}
    THEN lockCollinear(setControl(cmds, ref, x, y), ref, x, y)
    ELSE setControl(cmds, ref, x, y)

\* the forEach of mouseDragged from selected[k] on: it stops where getPoint throws
RECURSIVE dragSelected(_, _, _, _, _, _)
dragSelected(cmds, sel, k, dx, dy, lock) ==
    IF k > Len(sel) THEN cmds
    ELSE IF throws(cmds, sel[k]) THEN cmds
    ELSE LET o == getPoint(cmds, sel[k])
         IN  dragSelected(setPoint(cmds, sel[k], add(o.x, dx), add(o.y, dy), lock),
                          sel, k + 1, dx, dy, lock)

isSel(sel, t) == \E k \in 1..Len(sel) : sel[k] = t

\* this.selected.filter(s => !(s.index === t.index && s.type === t.type))
RECURSIVE without(_, _)
without(sel, t) ==
    IF sel = <<>> THEN <<>>
    ELSE IF Head(sel) = t THEN without(Tail(sel), t)
    ELSE <<Head(sel)>> \o without(Tail(sel), t)

-----------------------------------------------------------------------------
(* Initial state: the script has run to its end and setup() has run in a     *)
(* window of InitialWindow pixels: `new UI()` shows the panel, the two        *)
(* library scripts are loading (LIBS is pending), `opentype` is undefined,    *)
(* font is null, initializeApp() has not run.  glyphModel and editor are      *)
(* still null; their variables hold what the constructors will assign         *)

\* the browser window when the page loads, and the sizes it is resized to
InitialWindow == [w |-> 1680, h |-> 1020]
Windows == {[w |-> 1400, h |-> 900]}

\* this.cam = { x: 0, y: 0, z: 1 }
cam0 == [x |-> zero, y |-> zero, z |-> fromInt(1)]

Init ==
    /\ opentypeOK = FALSE
    /\ font = 0
    /\ constructed = FALSE
    /\ initialized = FALSE
    /\ canvas = canvasOf(InitialWindow.w, InitialWindow.h)
    /\ originalPath = <<>>
    /\ path = <<>>
    /\ char = "A"
    /\ params = defaultParams
    /\ undoStack = <<>>
    /\ redoStack = <<>>
    /\ cam = cam0
    /\ dragMode = noDrag
    /\ dragOff = [x |-> zero, y |-> zero]
    /\ selected = <<>>
    /\ view = [grid |-> FALSE, lock |-> FALSE]
    /\ lastEditorArea = editorArea(canvasOf(InitialWindow.w, InitialWindow.h))
    /\ checks = [grid |-> FALSE, lock |-> FALSE]
    /\ charInput = "A"
    /\ loading = <<>>
    /\ mouseIsPressed = FALSE
    /\ lastOp = Op("setup", "")
    /\ dragged = 0
    /\ everReset = FALSE
    /\ phase = "other"
    /\ commits = 0
    /\ snaps = <<>>

-----------------------------------------------------------------------------
(* Handlers *)

\* opentype.min.js has loaded and run (loadScript, src 11-23): the global
\* `opentype` is defined from now on.  The script may load before LIBS
\* settles, after FileSaver's failure has rejected LIBS and initializeApp has
\* run, or never
OpentypeLoaded ==
    /\ ~opentypeOK
    /\ opentypeOK' = TRUE
    /\ lastOp' = Op("opentype", "")
    /\ UNCHANGED <<font, constructed, initialized, canvas, modelVars, editorVars, checks,
                   charInput, loading, mouseIsPressed, dragged, historyVars>>

\* `if (!err) font = f` in the callback of opentype.load
fontAfter(f) == IF f # 0 THEN f ELSE font

\* The end of setup's LIBS chain.  When both scripts have loaded, the callback
\* of opentype.load runs: `if (!err) font = f` with the default font f (0: the
\* download or the parse failed), then initializeApp(); when a script has
\* failed, the catch runs initializeApp() alone, with `opentype` defined or not.
\* initializeApp(): new GlyphModel(), new Editor() (whose constructor takes
\* the editor area from the canvas), glyphModel.generate('A'); when generate
\* returns, initialized = true and redraw() runs draw(), which assigns the
\* editor area again and runs the first Editor.draw, which calls fitTo; when
\* generate throws, the objects stay but the rest of initializeApp does not
\* run
InitializeApp(f) ==
    /\ ~constructed
    /\ f # 0 => opentypeOK
    /\ font' = fontAfter(f)
    /\ constructed' = TRUE
    /\ dragMode' = noDrag
    /\ dragOff' = [x |-> zero, y |-> zero]
    /\ selected' = <<>>
    /\ view' = [grid |-> FALSE, lock |-> FALSE]
    /\ lastEditorArea' = editorArea(canvas)
    /\ Generate(fontAfter(f), "A")
    /\ IF generates(opentypeOK)
       THEN /\ initialized' = TRUE
            /\ cam' = fitTo(path', opentypeOK, editorArea(canvas), cam0)
            /\ lastOp' = Op("init", "")
       ELSE /\ initialized' = FALSE
            /\ cam' = cam0
            /\ lastOp' = Op("initThrew", "")
    /\ UNCHANGED <<opentypeOK, canvas, checks, charInput, loading, mouseIsPressed, dragged>>

\* this.charInput.input(() => glyphModel.generate(this.charInput.value())):
\* the field changes first; the call throws while glyphModel is null, and
\* generate returns at once for an empty string
CharInput(ch) ==
    /\ charInput' = ch
    /\ IF constructed /\ ch # ""
       THEN /\ Generate(font, ch)
            /\ lastOp' = IF generates(opentypeOK)
                         THEN Op("generate", ch) ELSE Op("generateThrew", ch)
       ELSE /\ UNCHANGED <<modelVars, historyVars>>
            /\ lastOp' = Op("generateIgnored", "")
    /\ UNCHANGED <<font, opentypeOK, constructed, initialized, canvas, editorVars, checks,
                   loading, mouseIsPressed, dragged>>

\* UI.paramChange(name, slider) with parseFloat(slider.value()) = v; the
\* handler throws on this.model while hookModel has not run
ParamChange(name, v) ==
    /\ constructed
    /\ LET pr == [params EXCEPT ![name] = v]
           p  == transformed(originalPath, pr, opentypeOK)
           s  == saveState(undoStack, redoStack, p, pr)
       IN  /\ params' = pr
           /\ path' = p
           /\ undoStack' = s.undoStack
           /\ redoStack' = s.redoStack
           /\ Committed(snapshotOf(p, pr))
    /\ lastOp' = OpCommit("paramChange", name, redoStack)
    /\ UNCHANGED <<font, opentypeOK, constructed, initialized, canvas, originalPath, char,
                   editorVars, checks, charInput, loading, mouseIsPressed, dragged>>

\* glyphModel.randomize(seed): the Surprise Me button and the R key
Randomize(seed) ==
    /\ constructed
    /\ LET p == randomized(path, seed)
           s == saveState(undoStack, redoStack, p, params)
       IN  /\ path' = p
           /\ undoStack' = s.undoStack
           /\ redoStack' = s.redoStack
           /\ Committed(snapshotOf(p, params))
    /\ lastOp' = OpCommit("randomize", "", redoStack)
    /\ UNCHANGED <<font, opentypeOK, constructed, initialized, canvas, originalPath, char, params,
                   editorVars, checks, charInput, loading, mouseIsPressed, dragged>>

\* glyphModel.undo(): the Undo button and the Z key
Undo ==
    /\ constructed
    /\ LET r == undo(undoStack, redoStack)
       IN  /\ undoStack' = r.undoStack
           /\ redoStack' = r.redoStack
           /\ IF r.loaded # <<>>
              THEN /\ path' = load(r.loaded[1]).path
                   /\ params' = load(r.loaded[1]).params
                   /\ phase' = IF phase = "fresh" THEN "undone" ELSE "other"
                   /\ commits' = IF phase = "fresh" THEN commits ELSE 0
                   /\ snaps' = IF phase = "fresh" THEN snaps ELSE <<>>
                   /\ everReset' = everReset
              ELSE UNCHANGED <<path, params, historyVars>>
    /\ lastOp' = Op("undo", "")
    /\ UNCHANGED <<font, opentypeOK, constructed, initialized, canvas, originalPath, char,
                   editorVars, checks, charInput, loading, mouseIsPressed, dragged>>

\* glyphModel.redo(): the Redo button and the Y key
Redo ==
    /\ constructed
    /\ LET r == redo(undoStack, redoStack)
       IN  /\ undoStack' = r.undoStack
           /\ redoStack' = r.redoStack
           /\ IF r.loaded # <<>>
              THEN /\ path' = load(r.loaded[1]).path
                   /\ params' = load(r.loaded[1]).params
                   /\ phase' = IF phase = "undone" /\ lastOp.op = "undo" THEN "redone" ELSE "other"
                   /\ commits' = IF phase = "undone" /\ lastOp.op = "undo" THEN commits ELSE 0
                   /\ snaps' = IF phase = "undone" /\ lastOp.op = "undo" THEN snaps ELSE <<>>
                   /\ everReset' = everReset
              ELSE UNCHANGED <<path, params, historyVars>>
    /\ lastOp' = Op("redo", "")
    /\ UNCHANGED <<font, opentypeOK, constructed, initialized, canvas, originalPath, char,
                   editorVars, checks, charInput, loading, mouseIsPressed, dragged>>

\* the Reset Glyph button: glyphModel.reset(); this.syncFromModel()
ResetGlyph ==
    /\ constructed
    /\ Reset(originalPath)
    /\ lastOp' = Op("reset", "")
    /\ UNCHANGED <<font, opentypeOK, constructed, initialized, canvas, char, editorVars, checks,
                   charInput, loading, mouseIsPressed, dragged>>

\* the Snap to Grid checkbox and the G key.  The box flips (the browser flips
\* it on a click, handleKey on the key) and its state is copied to
\* editor.view.grid; while editor is null only the click reaches the box, and
\* the copy throws
ToggleGrid ==
    /\ checks' = [checks EXCEPT !.grid = ~@]
    /\ view' = IF constructed THEN [view EXCEPT !.grid = ~checks.grid] ELSE view
    /\ lastOp' = Op("toggle", "grid")
    /\ UNCHANGED <<font, opentypeOK, constructed, initialized, canvas, modelVars, cam, dragMode,
                   dragOff, selected, lastEditorArea, charInput, loading, mouseIsPressed, dragged,
                   historyVars>>

\* the Lock Handles checkbox and the L key
ToggleLock ==
    /\ checks' = [checks EXCEPT !.lock = ~@]
    /\ view' = IF constructed THEN [view EXCEPT !.lock = ~checks.lock] ELSE view
    /\ lastOp' = Op("toggle", "lock")
    /\ UNCHANGED <<font, opentypeOK, constructed, initialized, canvas, modelVars, cam, dragMode,
                   dragOff, selected, lastEditorArea, charInput, loading, mouseIsPressed, dragged,
                   historyVars>>

\* the Fit to View button and the F key: editor.fitTo(editor._lastEditorArea)
FitToView ==
    /\ constructed
    /\ cam' = fitTo(path, opentypeOK, lastEditorArea, cam)
    /\ lastOp' = Op("fit", "")
    /\ UNCHANGED <<font, opentypeOK, constructed, initialized, canvas, modelVars, dragMode, dragOff,
                   selected, view, lastEditorArea, checks, charInput, loading, mouseIsPressed, dragged,
                   historyVars>>

\* UI.onFile(file) for a .ttf/.otf file whose bytes parse to font f (0: they do
\* not parse): a new FileReader is made and reader.readAsArrayBuffer starts
OnFile(f) ==
    /\ loading' = Append(loading, f)
    /\ lastOp' = Op("onFile", "")
    /\ UNCHANGED <<font, opentypeOK, constructed, initialized, canvas, modelVars, editorVars, checks,
                   charInput, mouseIsPressed, dragged, historyVars>>

\* reader.onload of the k-th pending reader (the reads finish in any order):
\* opentype.parse, then glyphModel.generate(this.charInput.value()); whatever
\* throws inside the try is caught and reported (opentype undefined, bytes
\* that do not parse, glyphModel still null)
ReaderOnload(k) ==
    /\ k \in 1..Len(loading)
    /\ loading' = SubSeq(loading, 1, k - 1) \o SubSeq(loading, k + 1, Len(loading))
    /\ IF opentypeOK /\ loading[k] # 0
       THEN /\ font' = loading[k]
            /\ IF constructed /\ charInput # ""
               THEN /\ Generate(loading[k], charInput)
                    /\ lastOp' = Op("fontLoaded", charInput)
               ELSE /\ UNCHANGED <<modelVars, historyVars>>
                    /\ lastOp' = Op("fontLoadedOnly", "")
       ELSE /\ UNCHANGED <<font, modelVars, historyVars>>
            /\ lastOp' = Op("fontError", "")
    /\ UNCHANGED <<opentypeOK, constructed, initialized, canvas, editorVars, checks, charInput,
                   mouseIsPressed, dragged>>

\* Editor.mousePressed past the test of the editor area: t is the result of
\* pointHit (<<ref>>, or <<>> for null) at the world position m
PressHit(t, m, mouseX, mouseY, shift) ==
    IF t # <<>>
    THEN /\ dragMode' = pointDrag(t[1])
         /\ dragOff' = [x |-> sub(getPoint(path, t[1]).x, m.x),
                        y |-> sub(getPoint(path, t[1]).y, m.y)]
         /\ selected' =
                IF shift
                THEN IF isSel(selected, t[1]) THEN without(selected, t[1])
                     ELSE Append(selected, t[1])
                ELSE IF ~isSel(selected, t[1]) THEN <<t[1]>>
                ELSE selected
    ELSE /\ selected' = <<>>
         /\ dragMode' = canvasDrag
         /\ dragOff' = [x |-> fromInt(mouseX), y |-> fromInt(mouseY)]

\* Editor.mousePressed from the world position m of the pointer
PressAt(m, mouseX, mouseY, shift) ==
    PressHit(pointHit(path, m.x, m.y, cam.z), m, mouseX, mouseY, shift)

\* mousePressed() with the pointer at pixel (px, py), SHIFT down or not:
\* Editor.mousePressed when initialized
MousePressed(px, py, shift) ==
    /\ mouseIsPressed' = TRUE
    /\ dragged' = 0
    /\ lastOp' = Op("press", "")
    /\ IF ~initialized \/ ~mouseInRect(px, py, lastEditorArea)
       THEN UNCHANGED <<dragMode, dragOff, selected>>
       ELSE PressAt(worldMouse(px, py, lastEditorArea, cam), px, py, shift)
    /\ UNCHANGED <<font, opentypeOK, constructed, initialized, canvas, modelVars, cam, view,
                   lastEditorArea, checks, charInput, loading, historyVars>>

\* nx, ny of mouseDragged: the world position m plus the offset of the press,
\* snapped to the grid when it is on
dragPoint(m, off, grid) ==
    [x |-> IF grid THEN snap10(add(m.x, off.x)) ELSE add(m.x, off.x),
     y |-> IF grid THEN snap10(add(m.y, off.y)) ELSE add(m.y, off.y)]

\* the forEach of mouseDragged for the target n and the bound point at ref:
\* dx = nx - ref.x, dy = ny - ref.y
dragTo(n, ref) ==
    dragSelected(path, selected, 1, <<sub(n.x, ref.x)>>[1], <<sub(n.y, ref.y)>>[1], view.lock)

\* mouseDragged() with the pointer at pixel (px, py): Editor.mouseDragged when
\* initialized
MouseDragged(px, py) ==
    /\ mouseIsPressed
    /\ lastOp' = Op("drag", dragMode.kind)
    /\ IF ~initialized \/ dragMode.kind = "none"
       THEN UNCHANGED <<cam, dragOff, path, dragged>>
       ELSE IF dragMode.kind = "canvas"
       THEN /\ cam' = [cam EXCEPT !.x = add(@, sub(fromInt(px), dragOff.x)),
                                  !.y = add(@, sub(fromInt(py), dragOff.y))]
            /\ dragOff' = [x |-> fromInt(px), y |-> fromInt(py)]
            /\ dragged' = dragged + 1
            /\ UNCHANGED path
       ELSE /\ IF throws(path, refOf(dragMode))
               THEN UNCHANGED path
               ELSE path' = dragTo(dragPoint(worldMouse(px, py, lastEditorArea, cam),
                                             dragOff, view.grid),
                                   getPoint(path, refOf(dragMode)))
            /\ dragged' = dragged + 1
            /\ UNCHANGED <<cam, dragOff>>
    /\ UNCHANGED <<font, opentypeOK, constructed, initialized, canvas, originalPath, char, params,
                   undoStack, redoStack, dragMode, selected, view, lastEditorArea, checks,
                   charInput, loading, mouseIsPressed, historyVars>>

\* mouseReleased(): Editor.mouseReleased when initialized
MouseReleased ==
    /\ mouseIsPressed
    /\ mouseIsPressed' = FALSE
    /\ lastOp' = (IF initialized /\ dragMode.kind = "point"
                  THEN OpCommit("release", "point", redoStack)
                  ELSE Op("release", dragMode.kind))
    /\ IF ~initialized
       THEN UNCHANGED <<undoStack, redoStack, dragMode, historyVars>>
       ELSE /\ dragMode' = noDrag
            /\ IF dragMode.kind = "point"
               THEN LET s == saveState(undoStack, redoStack, path, params)
                    IN  /\ undoStack' = s.undoStack
                        /\ redoStack' = s.redoStack
                        /\ Committed(snapshotOf(path, params))
               ELSE UNCHANGED <<undoStack, redoStack, historyVars>>
    /\ UNCHANGED <<font, opentypeOK, constructed, initialized, canvas, originalPath, path, char,
                   params, cam, dragOff, selected, view, lastEditorArea, checks, charInput,
                   loading, dragged>>


\* windowResized() in a window of w x h pixels: resizeCanvas, then redraw(),
\* whose draw() returns before it touches the editor while the app is not
\* initialized and assigns editor._lastEditorArea otherwise; the camera stays
\* (fitTo runs in the first Editor.draw only)
WindowResized(w, h) ==
    /\ canvas' = canvasOf(w, h)
    /\ lastEditorArea' = IF initialized THEN editorArea(canvasOf(w, h)) ELSE lastEditorArea
    /\ lastOp' = Op("resize", "")
    /\ UNCHANGED <<font, opentypeOK, constructed, initialized, modelVars, cam, dragMode,
                   dragOff, selected, view, checks, charInput, loading, mouseIsPressed,
                   dragged, historyVars>>

-----------------------------------------------------------------------------
(* Inputs and bounds *)

\* the longest undo stack and the most drag events per press the editor
\* specifications explore, the largest coordinate (in units of the outline),
\* the largest camera offset (in pixels) and the most file reads in flight
MaxUndo == 2
MaxEditUndo == 3
MaxDrags == 1
MaxCoord == 300
MaxCam == 700
MaxLoading == 2

\* pointer positions in pixels: a press on empty canvas inside the editor area,
\* a press on the UI panel outside it, and the places a drag moves to (with the
\* camera that fitTo gives "A" of font 1, the first is the pixel of the point
\* where the two cubics meet, the second a pixel near (55, 20))
emptySpot == <<320, 30>>
outsideSpot == <<100, 500>>
DragSpots == {<<800, 206>>, <<952, 409>>}

\* the integer that a whole number x of size below 2^26 is
intOf(x) ==
    IF x[3] = 0 \/ -x[2] - 26 > 26 THEN 0
    ELSE IF x[1] = 1 THEN -(x[3] \div 2^(-x[2] - 26))
    ELSE x[3] \div 2^(-x[2] - 26)

\* the pixel nearest to v
pixelOf(v) == intOf(round(v))

\* the pixel where the point ref is drawn by Editor.draw: translate(area
\* centre + cam), scale(cam.z)
screenOf(cmds, ref, c, area) ==
    <<pixelOf(add(add(centre(area.x, area.w), c.x), mul(getPoint(cmds, ref).x, c.z))),
      pixelOf(add(add(centre(area.y, area.h), c.y), mul(getPoint(cmds, ref).y, c.z)))>>

\* the point ref can be hit: pointHit tests a point of that type on the
\* command (c1 and c2 on a C, q on a Q, the anchor on all but Z), and dist()
\* gives a number for it (a null coordinate counts as 0, an absent one or NaN
\* gives NaN)
visible(cmds, ref) ==
    /\ ~throws(cmds, ref)
    /\ \E k \in DOMAIN tests(cmds[ref.index + 1], ref.index) :
           tests(cmds[ref.index + 1], ref.index)[k].ref = ref
    /\ ToNumber(getPoint(cmds, ref).x) # NaN
    /\ ToNumber(getPoint(cmds, ref).y) # NaN

\* the pixel s is inside the canvas, where the pointer can be
onScreen(s) == s[1] >= 0 /\ s[1] <= canvas.width /\ s[2] >= 0 /\ s[2] <= canvas.height

\* the pointer positions of a press aimed at one of the points refs
PressOn(refs) ==
    {s \in {screenOf(path, r, cam, lastEditorArea) : r \in {q \in refs : visible(path, q)}} :
        onScreen(s)}

coordsOf(cmds) ==
    {v \in UNION {{cmds[i].x, cmds[i].y, cmds[i].x1, cmds[i].y1, cmds[i].x2, cmds[i].y2} :
                    i \in 1..Len(cmds)} : IsNum(v)}

\* the step ends within the bounds; a press on a point is explored when the
\* undo stack has room for its release
BoundedBy(n) ==
    /\ Len(undoStack') + (IF dragMode'.kind = "point" THEN 1 ELSE 0) <= n
    /\ dragged' <= MaxDrags
    /\ Len(loading') <= MaxLoading
    /\ \A v \in coordsOf(path') : lessEq(abs(v), fromInt(MaxCoord))
    /\ lessEq(abs(cam'.x), fromInt(MaxCam))
    /\ lessEq(abs(cam'.y), fromInt(MaxCam))

Bounded == BoundedBy(MaxUndo)

\* a handler that calls saveState() is explored while the undo stack has room
\* for its snapshot, and for the one the release of a held point will push
Room(n) == Len(undoStack) + (IF dragMode.kind = "point" THEN 1 ELSE 0) < n

\* a drag event is explored while the press has had fewer than MaxDrags, and a
\* file is handed over while fewer than MaxLoading reads are pending
MayDrag == dragged < MaxDrags \/ ~initialized \/ dragMode.kind = "none"
MayLoad == Len(loading) < MaxLoading

\* a second button goes down while the first is held (mousePressed runs again
\* without a release) only before a drag event has followed the first press
MayPress == ~mouseIsPressed \/ dragged = 0

-----------------------------------------------------------------------------
(* Spec: the model's operations and the history, on the built-in outline.    *)
(* opentype.min.js loads before or after initializeApp or never, the default  *)
(* font does not arrive; a letter is typed, the weight slider moves,          *)
(* randomize, undo, redo, reset, the window is resized, and the mouse is      *)
(* pressed on a point, on empty canvas and outside the editor area, dragged   *)
(* and released                                                               *)

Typed == {"B"}
Seeds == {42}
ParamInputs == {<<"weight", fromInt(5)>>}
SpecRefs == {Ref(1, "anchor")}

\* the default font that opentype.load hands to its callback: 0 when the
\* download fails or LIBS was rejected
NoFont == {0}

Next ==
    \/ OpentypeLoaded /\ Bounded
    \/ \E f \in NoFont : InitializeApp(f) /\ Bounded
    \/ \E win \in Windows : WindowResized(win.w, win.h) /\ Bounded
    \/ \E ch \in Typed : CharInput(ch) /\ Bounded
    \/ \E pv \in ParamInputs : Room(MaxUndo) /\ ParamChange(pv[1], pv[2]) /\ Bounded
    \/ \E seed \in Seeds : Room(MaxUndo) /\ Randomize(seed) /\ Bounded
    \/ Undo /\ Bounded
    \/ Redo /\ Bounded
    \/ ResetGlyph /\ Bounded
    \/ \E m \in PressOn(SpecRefs) \cup {emptySpot, outsideSpot} :
           MayPress /\ MousePressed(m[1], m[2], FALSE) /\ Bounded
    \/ \E m \in {<<952, 409>>} : MayDrag /\ MouseDragged(m[1], m[2]) /\ Bounded
    \/ MouseReleased /\ Bounded

Spec == Init /\ [][Next]_vars

-----------------------------------------------------------------------------
(* SpecUndo: the three kinds of committed mutation after one undo or several. *)
(* On the built-in outline the weight slider moves, randomize runs and a      *)
(* point is pressed, dragged and released, with undo and redo between the     *)
(* gestures                                                                   *)

MaxDepth == 3

BoundedUndo == BoundedBy(MaxDepth)

\* undo and redo are explored between the gestures, while no button is held
Idle == ~mouseIsPressed

NextUndo ==
    \/ OpentypeLoaded /\ BoundedUndo
    \/ \E f \in NoFont : InitializeApp(f) /\ BoundedUndo
    \/ \E pv \in ParamInputs : Room(MaxDepth) /\ ParamChange(pv[1], pv[2]) /\ BoundedUndo
    \/ \E seed \in Seeds : Room(MaxDepth) /\ Randomize(seed) /\ BoundedUndo
    \/ Idle /\ Undo /\ BoundedUndo
    \/ Idle /\ Redo /\ BoundedUndo
    \/ \E m \in PressOn(SpecRefs) : MayPress /\ MousePressed(m[1], m[2], FALSE) /\ BoundedUndo
    \/ \E m \in {<<952, 409>>} : MayDrag /\ MouseDragged(m[1], m[2]) /\ BoundedUndo
    \/ MouseReleased /\ BoundedUndo

SpecUndo == Init /\ [][NextUndo]_vars

-----------------------------------------------------------------------------
(* SpecEdit: gestures on the outline font 1 draws for "A": plain clicks and   *)
(* shift-clicks on the end points of commands 1 and 2 and on the second       *)
(* control of command 1, with their drags                                     *)

EditRefs == {Ref(1, "anchor"), Ref(1, "c2"), Ref(2, "anchor")}

\* the default font arrives and is font 1
DefaultFont == {1}

BoundedEdit == BoundedBy(MaxEditUndo)

\* the gestures of this specification start once initializeApp has returned
Ready == initialized

\* every drag event moves the pointer to the pixel of the point where the two
\* cubics meet
EditSpots == {<<800, 206>>}

NextEdit ==
    \/ OpentypeLoaded /\ BoundedEdit
    \/ \E f \in DefaultFont : InitializeApp(f) /\ BoundedEdit
    \/ \E m \in PressOn(EditRefs), shift \in BOOLEAN :
           Ready /\ MayPress /\ MousePressed(m[1], m[2], shift) /\ BoundedEdit
    \/ \E m \in EditSpots : Ready /\ MayDrag /\ MouseDragged(m[1], m[2]) /\ BoundedEdit
    \/ Ready /\ MouseReleased /\ BoundedEdit

SpecEdit == Init /\ [][NextEdit]_vars

-----------------------------------------------------------------------------
(* SpecLock: drags of a control with the collinear lock and the grid snap on  *)
(* or off, on the outline font 1 draws for "A": the second control of command *)
(* 1 and the first control of command 2                                       *)

MaxLockUndo == 2

LockRefs == {Ref(1, "c2"), Ref(2, "c1")}

BoundedLock == BoundedBy(MaxLockUndo)

NextLock ==
    \/ OpentypeLoaded /\ BoundedLock
    \/ \E f \in DefaultFont : InitializeApp(f) /\ BoundedLock
    \/ \E m \in PressOn(LockRefs) :
           Ready /\ MayPress /\ MousePressed(m[1], m[2], FALSE) /\ BoundedLock
    \/ \E m \in DragSpots : Ready /\ MayDrag /\ MouseDragged(m[1], m[2]) /\ BoundedLock
    \/ Ready /\ MouseReleased /\ BoundedLock
    \/ Ready /\ ToggleGrid /\ BoundedLock
    \/ Ready /\ ToggleLock /\ BoundedLock

SpecLock == Init /\ [][NextLock]_vars

-----------------------------------------------------------------------------
(* SpecParams: the five sliders, randomize and Fit to View, on the built-in   *)
(* outline and on the outline font 2 draws for "A"                            *)

MaxParamUndo == 3

\* slider values: width 1 and 1.5, height 2, slant 0 and 1, roundness 0.5,
\* weight 5
SliderInputs ==
    {<<"width", fromInt(1)>>, <<"width", decimal(15, 1)>>,
     <<"height", fromInt(2)>>,
     <<"slant", zero>>, <<"slant", fromInt(1)>>,
     <<"roundness", decimal(5, 1)>>,
     <<"weight", fromInt(5)>>}

\* the default font: none, or font 2
ParamFonts == {0, 2}

BoundedParams == BoundedBy(MaxParamUndo)

NextParams ==
    \/ OpentypeLoaded /\ BoundedParams
    \/ \E f \in ParamFonts : InitializeApp(f) /\ BoundedParams
    \/ \E pv \in SliderInputs : Room(MaxParamUndo) /\ ParamChange(pv[1], pv[2]) /\ BoundedParams
    \/ \E seed \in Seeds : Room(MaxParamUndo) /\ Randomize(seed) /\ BoundedParams
    \/ FitToView /\ BoundedParams

SpecParams == Init /\ [][NextParams]_vars

-----------------------------------------------------------------------------
(* SpecLoad: font uploads and typed letters while the editor is in use. A     *)
(* file is handed to onFile, its reader completes later, and presses, drags   *)
(* and releases, undo and reset run in between                                *)

MaxLoadUndo == 2

\* the files uploaded: 1 parses to font 1, 0 does not parse
Files == {0, 1}
LoadRefs == {Ref(1, "c2"), Ref(4, "anchor")}

BoundedLoad == BoundedBy(MaxLoadUndo)

NextLoad ==
    \/ OpentypeLoaded /\ BoundedLoad
    \/ \E f \in DefaultFont : InitializeApp(f) /\ BoundedLoad
    \/ \E f \in Files : MayLoad /\ OnFile(f) /\ BoundedLoad
    \/ \E k \in 1..MaxLoading : ReaderOnload(k) /\ BoundedLoad
    \/ \E ch \in Typed : CharInput(ch) /\ BoundedLoad
    \/ \E m \in PressOn(LoadRefs) : MayPress /\ MousePressed(m[1], m[2], FALSE) /\ BoundedLoad
    \/ \E m \in {<<952, 409>>} : MayDrag /\ MouseDragged(m[1], m[2]) /\ BoundedLoad
    \/ MouseReleased /\ BoundedLoad
    \/ Undo /\ BoundedLoad
    \/ ResetGlyph /\ BoundedLoad

SpecLoad == Init /\ [][NextLoad]_vars

-----------------------------------------------------------------------------
(* SpecDrag: group drags of anchors on the outline font 1 draws for "A".     *)
(* Plain clicks and shift-clicks build the selection, every drag event moves  *)
(* the pointer to the one place DragTo, with the grid snap on or off          *)

DragTo == <<952, 409>>
DragRefs == {Ref(1, "anchor"), Ref(2, "anchor")}

NextDrag ==
    \/ OpentypeLoaded /\ BoundedEdit
    \/ \E f \in DefaultFont : InitializeApp(f) /\ BoundedEdit
    \/ \E m \in PressOn(DragRefs), shift \in BOOLEAN :
           Ready /\ MayPress /\ MousePressed(m[1], m[2], shift) /\ BoundedEdit
    \/ Ready /\ MayDrag /\ MouseDragged(DragTo[1], DragTo[2]) /\ BoundedEdit
    \/ Ready /\ MouseReleased /\ BoundedEdit
    \/ Ready /\ ToggleGrid /\ BoundedEdit

SpecDrag == Init /\ [][NextDrag]_vars

-----------------------------------------------------------------------------
(* SpecSnap: the working path against the history. Letters, the weight       *)
(* slider, randomize, undo, redo, reset, and presses on the end point and the *)
(* second control of command 1 with their drags                               *)

MaxSnapUndo == 2

SnapRefs == {Ref(1, "anchor"), Ref(1, "c2")}

BoundedSnap == BoundedBy(MaxSnapUndo)

NextSnap ==
    \/ OpentypeLoaded /\ BoundedSnap
    \/ \E f \in DefaultFont : InitializeApp(f) /\ BoundedSnap
    \/ \E ch \in Typed : CharInput(ch) /\ BoundedSnap
    \/ \E pv \in ParamInputs : Room(MaxSnapUndo) /\ ParamChange(pv[1], pv[2]) /\ BoundedSnap
    \/ \E seed \in Seeds : Room(MaxSnapUndo) /\ Randomize(seed) /\ BoundedSnap
    \/ Undo /\ BoundedSnap
    \/ Redo /\ BoundedSnap
    \/ ResetGlyph /\ BoundedSnap
    \/ \E m \in PressOn(SnapRefs) : MayPress /\ MousePressed(m[1], m[2], FALSE) /\ BoundedSnap
    \/ \E m \in {<<952, 409>>} : MayDrag /\ MouseDragged(m[1], m[2]) /\ BoundedSnap
    \/ MouseReleased /\ BoundedSnap

SpecSnap == Init /\ [][NextSnap]_vars

-----------------------------------------------------------------------------
(* Steps of the history *)

HistoryUnchanged == UNCHANGED <<path, params, undoStack, redoStack>>

\* the saveState() calls outside reset(): a parameter change, a randomize, a
\* release that ends a press on a point
IsMutation(o) ==
    \/ o.op \in {"paramChange", "randomize"}
    \/ o.op = "release" /\ o.arg = "point"

-----------------------------------------------------------------------------
(* SpecHist: a long history. The weight slider moves one step up at a time,   *)
(* so that every commit pushes a different snapshot, with undo, redo and      *)
(* reset in between                                                           *)

\* the highest weight the slider is moved to (62 commits fill the undo stack
\* and evict twice) and the longest redo stack
MaxWeight == 62
MaxRedo == 2

BoundedHist == lessEq(params'.weight, fromInt(MaxWeight)) /\ Len(redoStack') <= MaxRedo

NextHist ==
    \/ OpentypeLoaded /\ BoundedHist
    \/ \E f \in NoFont : InitializeApp(f) /\ BoundedHist
    \/ ParamChange("weight", add(params.weight, fromInt(1))) /\ BoundedHist
    \/ Undo /\ BoundedHist
    \/ Redo /\ BoundedHist
    \/ ResetGlyph /\ BoundedHist

SpecHist == Init /\ [][NextHist]_vars
-----------------------------------------------------------------------------
(* Claims about the length of the history, checked under SpecHist *)

current == snapshotOf(path, params)

\* C1 as stated: N commits after a reset (1 <= N < 60) leave N entries on the
\* undo stack, an undo then leaves one entry on the redo stack and the
\* snapshot of the (N-1)th commit current, and a redo after it the snapshot of
\* the Nth commit current and no redo entry
C1_CommitsCounted ==
    /\ (phase = "fresh" /\ commits >= 1 /\ commits < maxHist) =>
           Len(undoStack) = commits
    /\ (phase = "undone" /\ commits >= 2 /\ commits < maxHist) =>
           /\ Len(redoStack) = 1
           /\ current = snaps[commits]
    /\ (phase = "redone" /\ commits >= 2 /\ commits < maxHist) =>
           /\ redoStack = <<>>
           /\ current = snaps[commits + 1]

\* C1, corrected: reset() itself pushes the baseline, snapshot 0. After N
\* commits on a freshly reset model (N < 60) the undo stack holds the N + 1
\* snapshots 0..N in order. If N >= 1, an undo then leaves one entry on the
\* redo stack, N entries on the undo stack and snapshot N-1 current; a redo
\* after it leaves snapshot N current, the redo stack empty and N + 1
\* entries on the undo stack. (With N = 0 the undo is a no-op.)
C1_HistoryCounts ==
    /\ (phase = "fresh" /\ commits < maxHist) =>
           /\ Len(undoStack) = commits + 1
           /\ undoStack = snaps
    /\ (phase = "undone" /\ commits < maxHist) =>
           /\ commits >= 1
           /\ Len(redoStack) = 1
           /\ redoStack[1] = snaps[commits + 1]
           /\ Len(undoStack) = commits
           /\ current = snaps[commits]
    /\ (phase = "redone" /\ commits < maxHist) =>
           /\ redoStack = <<>>
           /\ undoStack = snaps
           /\ current = snaps[commits + 1]

\* three commits after a reset, one undo and the redo that follows it
C1_Witness ==
    /\ phase = "redone"
    /\ lastOp.op = "redo"
    /\ commits = 3
    /\ Len(undoStack) = 4
    /\ params.weight = fromInt(3)
    /\ snaps[3].params.weight = fromInt(2)

\* C4: the undo stack never holds more than 60 snapshots; a commit that finds
\* 60 on it discards the oldest and leaves the other 59, in their order,
\* under the new snapshot.
C4_HistoryCapped ==
    /\ [](Len(undoStack) <= maxHist)
    /\ [][(IsMutation(lastOp') /\ Len(undoStack) = maxHist) =>
            undoStack' = Append(Tail(undoStack), snapshotOf(path', params'))]_vars

\* the 60th commit after a reset has evicted the baseline
C4_Witness ==
    /\ phase = "fresh"
    /\ commits = maxHist
    /\ Len(undoStack) = maxHist
    /\ undoStack = Tail(snaps)
    /\ undoStack[1].params.weight = fromInt(1)
    /\ undoStack[maxHist].params.weight = fromInt(maxHist)

-----------------------------------------------------------------------------
(* Claims about the history, checked under Spec (C2, C5, C6) and SpecUndo (C3) *)

\* C2: once a generate() or a reset() has run to its end (in initializeApp,
\* from the Letter field, from a font load, from the Reset Glyph button,
\* whether or not the app became initialized) the undo stack is never empty;
\* an undo that finds one entry on the undo stack, and a redo that finds the
\* redo stack empty, leave path, params and both stacks as they were.
C2_BaselineKept ==
    /\ [](everReset => Len(undoStack) >= 1)
    /\ [][(lastOp'.op = "undo" /\ Len(undoStack) = 1) => HistoryUnchanged]_vars
    /\ [][(lastOp'.op = "redo" /\ Len(redoStack) = 0) => HistoryUnchanged]_vars

\* initializeApp stopped in generate('A') (no opentype), the Reset Glyph
\* button has run reset() to its end all the same, and an undo has just run
\* on the baseline alone
C2_Witness ==
    /\ ~initialized
    /\ everReset
    /\ lastOp.op = "undo"
    /\ Len(undoStack) = 1
    /\ redoStack = <<>>

\* C3: a step that commits a mutation leaves the redo stack empty, so that a
\* redo() in the state it leads to loads nothing, and the redo that follows
\* it changes neither path, params nor the stacks.
C3_MutationClearsRedo ==
    /\ [][IsMutation(lastOp') =>
            /\ redoStack' = <<>>
            /\ redo(undoStack', redoStack').loaded = <<>>]_vars
    /\ [][(IsMutation(lastOp) /\ lastOp'.op = "redo") => HistoryUnchanged]_vars

\* a released point drag has been committed after two undos had put two
\* snapshots on the redo stack
C3_Witness ==
    /\ lastOp.op = "release"
    /\ lastOp.arg = "point"
    /\ lastOp.cleared = 2
    /\ dragged > 0
    /\ Len(undoStack) = 2
    /\ redoStack = <<>>

\* C5: right after generate(ch) with a non-empty ch (in initializeApp, from the
\* Letter field, from a font load), and right after reset(), the redo stack is
\* empty and the undo stack holds one snapshot, of originalPath with the
\* default params; undo() and redo() load nothing.
C5_ResetDiscardsHistory ==
    lastOp.op \in {"init", "initThrew", "generate", "generateThrew", "fontLoaded", "reset"} =>
        /\ redoStack = <<>>
        /\ Len(undoStack) = 1
        /\ undoStack[1].path = originalPath
        /\ undoStack[1].params = defaultParams
        /\ path = originalPath
        /\ params = defaultParams
        /\ undo(undoStack, redoStack).loaded = <<>>
        /\ redo(undoStack, redoStack).loaded = <<>>

\* a mouseReleased step, and whether mouseDragged ran in point-drag mode
\* between the press and it
IsRelease == mouseIsPressed /\ ~mouseIsPressed' /\ lastOp'.op = "release"
PointDragOccurred == dragMode.kind = "point" /\ dragged > 0

\* C6: a release pushes a snapshot exactly when a point drag occurred since
\* the press: after one it pushes the current (path, params); after a canvas
\* pan, with no drag mode, or after a press on a point that no drag event
\* followed, it leaves both stacks unchanged.
C6_ReleaseCommitsIffDragged ==
    [][IsRelease =>
         IF PointDragOccurred
         THEN undoStack' = Append(undoStack, snapshotOf(path, params))
         ELSE UNCHANGED <<undoStack, redoStack>>]_vars

-----------------------------------------------------------------------------
(* Claims about dragging, checked under SpecEdit (C7) and SpecLock (C8) *)

\* a mouseDragged step in point-drag mode
IsPointDrag == mouseIsPressed /\ dragMode.kind = "point" /\ lastOp' = Op("drag", "point")

\* the end point of command i (0-based) is the anchor of a cubic
cubicAnchor(cmds, r) ==
    r.type = "anchor" /\ ~throws(cmds, r) /\ cmds[r.index + 1].type = "C"

\* a and b are the same number to a thousandth of a unit, far above the
\* rounding of the arithmetic
near(a, b) == lessEq(abs(sub(a, b)), decimal(1, 3))

\* C7: in a drag event in point-drag mode, whatever else the selection holds,
\* a selected cubic anchor that moves by (dx, dy) takes the second control of
\* its own command and the first control of the next curve command with it:
\* each of the two is its old value plus (dx, dy), the difference between the
\* anchor's new and old coordinates, no more and no less.
C7_ControlsFollowAnchor ==
    [][IsPointDrag =>
         \A k \in 1..Len(selected) :
            cubicAnchor(path, selected[k]) =>
               LET i  == selected[k].index + 1
                   ni == nextCurve(path, selected[k].index)
                   dx == sub(path'[i].x, path[i].x)
                   dy == sub(path'[i].y, path[i].y)
               IN  /\ path'[i].x2 = add(path[i].x2, dx)
                   /\ path'[i].y2 = add(path[i].y2, dy)
                   /\ ni # -1 => /\ path'[ni + 1].x1 = add(path[ni + 1].x1, dx)
                                 /\ path'[ni + 1].y1 = add(path[ni + 1].y1, dy)]_vars

\* the second control of cubic i (0-based) is the only selected point, and the
\* next command is the cubic that shares the end point of command i with it
lockPair(cmds, sel, i) ==
    /\ sel = <<Ref(i, "c2")>>
    /\ i + 2 <= Len(cmds)
    /\ cmds[i + 1].type = "C"
    /\ cmds[i + 2].type = "C"

\* C8: with the collinear lock on, a drag of the second control of a cubic to
\* any target, the shared anchor included, leaves the first control of the
\* next cubic at the distance from the shared anchor it had before the drag
\* (to a thousandth of a unit), on the line through the anchor and the target
\* and not on the target's side.
C8_LockKeepsDistance ==
    [][(IsPointDrag /\ view.lock) =>
         \A i \in 0..(Len(path) - 1) :
            (lockPair(path, selected, i) /\ dragMode.index = i /\ dragMode.type = "c2") =>
               LET ax == path[i + 1].x
                   ay == path[i + 1].y
                   tx == path'[i + 1].x2
                   ty == path'[i + 1].y2
                   ox == path[i + 2].x1
                   oy == path[i + 2].y1
                   nx == path'[i + 2].x1
                   ny == path'[i + 2].y1
               IN  /\ near(dist(ax, ay, nx, ny), dist(ax, ay, ox, oy))
                   /\ near(mul(sub(nx, ax), sub(ty, ay)), mul(sub(ny, ay), sub(tx, ax)))
                   /\ lessEq(add(mul(sub(nx, ax), sub(tx, ax)), mul(sub(ny, ay), sub(ty, ay))),
                             zero)]_vars

-----------------------------------------------------------------------------
(* Claims about the sliders, checked under SpecParams *)

geometryDefault(pr) ==
    /\ pr.width = fromInt(1)
    /\ pr.height = fromInt(1)
    /\ pr.slant = zero
    /\ pr.roundness = zero

\* C9: after a slider change that leaves width = 1, height = 1, slant = 0
\* and roundness = 0, whatever the sliders were set to before, the working
\* path has the coordinates of originalPath, every one of them the same
\* number.
C9_IdentityAtDefaults ==
    (lastOp.op = "paramChange" /\ geometryDefault(params)) => path = originalPath

\* C10: a change of the weight slider alone leaves every coordinate of the
\* working path as it was.
C10_WeightKeepsPath ==
    [][(lastOp'.op = "paramChange" /\ lastOp'.arg = "weight") => path' = path]_vars

-----------------------------------------------------------------------------
(* Claims about font loads and the selection, checked under SpecLoad *)

\* reader.onload has just regenerated the glyph while a press on a point is
\* still held
Superseded ==
    /\ lastOp.op = "fontLoaded"
    /\ mouseIsPressed
    /\ dragMode.kind = "point"

\* C11: when a font load regenerates the glyph between a press on a point and
\* its release, the gesture is superseded: the drag event that follows leaves
\* the regenerated path as it is, and the release that follows pushes no
\* snapshot onto the new history.
C11_LoadSupersedesEdit ==
    [][Superseded =>
         /\ lastOp'.op = "drag" => path' = path
         /\ lastOp'.op = "release" => UNCHANGED <<undoStack, redoStack>>]_vars

-----------------------------------------------------------------------------
(* Claims about group drags, checked under SpecDrag *)

\* where mouseDragged wants the point the drag is bound to, for the pointer at
\* DragTo: worldMouse plus the offset of the press, snapped when the grid is on
dragTarget ==
    LET m  == worldMouse(DragTo[1], DragTo[2], lastEditorArea, cam)
        nx == add(m.x, dragOff.x)
        ny == add(m.y, dragOff.y)
    IN  [x |-> IF view.grid THEN snap10(nx) ELSE nx,
         y |-> IF view.grid THEN snap10(ny) ELSE ny]

\* C12: after a drag event in point-drag mode the point the drag is bound to
\* is at the pointer's target (on the 10-unit grid when the snap is on), to a
\* thousandth of a unit, whether the press replaced the selection, added the
\* point to it with shift, or removed the point from it with shift.
C12_BoundPointAtTarget ==
    [][IsPointDrag =>
         /\ near(getPoint(path', refOf(dragMode)).x, dragTarget.x)
         /\ near(getPoint(path', refOf(dragMode)).y, dragTarget.y)]_vars

\* ref names a command of cmds and a point that command has
validRef(cmds, ref) ==
    /\ ~throws(cmds, ref)
    /\ LET c == cmds[ref.index + 1]
       IN  \/ ref.type = "anchor" /\ HasX(c) /\ HasY(c)
           \/ ref.type = "c1" /\ c.type = "C"
           \/ ref.type = "c2" /\ c.type = "C"
           \/ ref.type = "q" /\ c.type = "Q"

\* C15: whatever presses, drags, releases, undos, redos, resets, typed letters
\* and font loads have run, every reference in the selection, and the drag
\* reference while a point drag is active, names a command index inside the
\* working path and a point the command at that index has.
C15_RefsValid ==
    initialized =>
        /\ \A k \in 1..Len(selected) : validRef(path, selected[k])
        /\ dragMode.kind = "point" => validRef(path, refOf(dragMode))

-----------------------------------------------------------------------------
(* Claims about what a drag leaves alone, checked under SpecEdit (C13) and   *)
(* SpecLock (C14)                                                             *)

\* the slots of command c that are not named in keep are as in command d
sameExcept(c, d, keep) ==
    /\ c.type = d.type
    /\ \A k \in {"x", "y", "x1", "y1", "x2", "y2"} \ keep : c[k] = d[k]

\* the slots of command j (1-based) that a move of the anchor of command i may
\* change: the anchor itself and, on a cubic, its second control; the first
\* control of command i + 1 when that is a cubic; nothing anywhere else
anchorFrame(cmds, i, j) ==
    IF j = i THEN (IF cmds[i].type = "C" THEN {"x", "y", "x2", "y2"} ELSE {"x", "y"})
    ELSE IF j = i + 1 /\ cmds[j].type = "C" THEN {"x1", "y1"}
    ELSE {}

\* C13: a drag of one anchor, selected alone, changes that anchor, the second
\* control of its command when it is a cubic, and the first control of the
\* command right after it when that is a cubic; every other coordinate of
\* every command stays as it was, whatever the type of the command after it.
C13_AnchorMoveFrame ==
    [][(IsPointDrag /\ dragMode.type = "anchor" /\ selected = <<refOf(dragMode)>>) =>
         /\ Len(path') = Len(path)
         /\ \A j \in 1..Len(path) :
                sameExcept(path'[j], path[j], anchorFrame(path, dragMode.index + 1, j))]_vars

\* the slots of command j (1-based) that a locked drag of the control ref may
\* change: the dragged control, and the control of the adjacent cubic on the
\* other side of the shared anchor (the second control of the command before
\* for a first control, the first control of the command after for a second)
lockFrame(cmds, ref, j) ==
    LET i == ref.index + 1
    IN  IF ref.type = "c1"
        THEN IF j = i THEN {"x1", "y1"}
             ELSE IF j = i - 1 /\ cmds[j].type = "C" THEN {"x2", "y2"}
             ELSE {}
        ELSE IF j = i THEN {"x2", "y2"}
             ELSE IF j = i + 1 /\ cmds[j].type = "C" THEN {"x1", "y1"}
             ELSE {}

\* C14: with the collinear lock on, a drag of a cubic's control, selected
\* alone, moves besides it only the control across the shared anchor: the
\* second control of the cubic right before for a first control, the first
\* control of the cubic right after for a second control. No other control
\* of the dragged control's own command and no control of a command that is
\* not adjacent moves.
C14_LockMirrorsAdjacent ==
    [][(/\ IsPointDrag
        /\ view.lock
        /\ dragMode.type \in {"c1", "c2"}
        /\ selected = <<refOf(dragMode)>>) =>
         /\ Len(path') = Len(path)
         /\ \A j \in 1..Len(path) :
                sameExcept(path'[j], path[j], lockFrame(path, refOf(dragMode), j))]_vars

-----------------------------------------------------------------------------
(* Claims about the working path against the history, checked under SpecSnap *)

top == undoStack[Len(undoStack)]

working == [path |-> path, params |-> params]

atRest == initialized /\ dragMode.kind # "point"

\* C16: after initialization, whenever no point drag is in progress, the top
\* snapshot of the undo stack is equal to the model's current (path, params)
C16_TopIsWorking == atRest => (Len(undoStack) >= 1 /\ top = working)

=============================================================================
